---- MODULE Spec2Model ----
(***************************************************************************)
(* Treasury curve builder (src/FREDAPI/src/data/treasury_builder.py) with  *)
(* the bootstrapper and validation it calls                                *)
(* (src/FREDAPI/src/utils/bootstrapping.py) and the two tables it writes   *)
(* (src/FREDAPI/src/models/database.py).                                   *)
(*                                                                         *)
(* Numbers.  Yields are integers in tenths of a percent (42 is 4.2),       *)
(* maturities are integers in quarters of a year (the 3M tenor, 3/12, is   *)
(* 1).  exp() is evaluated in fixed point by its Taylor series, forward    *)
(* rates are kept as exact quotients scaled by FwdScale, interpolated      *)
(* rates and grid points are exact fractions.  A missing database value    *)
(* (Python None) and a float NaN are two integers outside the range of     *)
(* every yield and maturity.                                               *)
(*                                                                         *)
(* Storage.  raw and curves are the committed tables in rowid order; a     *)
(* query without ORDER BY returns rows in that order.  A storage exception *)
(* is an input of every operation that talks to the session: the           *)
(* operation's uncommitted work never reaches the committed tables.        *)
(***************************************************************************)
EXTENDS Integers, Sequences, FiniteSets, TLC

VARIABLES raw, curves, lastStored, last

vars == <<raw, curves, lastStored, last>>

-----------------------------------------------------------------------------
(* Bounds of the model *)

MaxRows == 2

MaxCells == 2

\* The longest list given to validate_curve_data and to bootstrap_zero_curve.
MaxPoints == 3

\* The longest list given to interpolate_curve.
MaxKnots == 4

\* The longest list given to calculate_spreads and to smooth_curve.
MaxRates == 4

Dates == {1, 2}

Yields == {42, 45}

-----------------------------------------------------------------------------
(* Values and configuration *)

None == 0 - 1000000

NaN == 0 - 2000000

Tenors == {"1Y", "2Y", "5Y", "10Y"}

Columns == Tenors \cup {"AAA"}

\* The column labels of the frames store_raw_data is given: two treasury
\* tenors and a label that config.TREASURY_SERIES does not have.
IngestColumns == {"1Y", "10Y", "AAA"}

NoSeries == ""

TREASURY_SERIES ==
    [c \in Columns |->
        CASE c = "1Y"  -> "DGS1"
          [] c = "2Y"  -> "DGS2"
          [] c = "5Y"  -> "DGS5"
          [] c = "10Y" -> "DGS10"
          [] OTHER     -> NoSeries]

\* Maturities are counted in quarters of a year: "3M": 3/12 is 1.
QuartersPerYear == 4

TREASURY_MATURITIES ==
    [t \in Tenors |->
        CASE t = "1Y"  -> 1 * QuartersPerYear
          [] t = "2Y"  -> 2 * QuartersPerYear
          [] t = "5Y"  -> 5 * QuartersPerYear
          [] t = "10Y" -> 10 * QuartersPerYear]

MIN_DATA_POINTS == 3

BOOTSTRAPPING_INTERPOLATION_METHOD == "cubic"

DaysPerYear == 365

-----------------------------------------------------------------------------
(* Sequence helpers *)

Range(s) == {s[i] : i \in DOMAIN s}

Indices(s, P(_)) == {i \in DOMAIN s : P(s[i])}

MinOf(S) == CHOOSE x \in S : \A y \in S : x <= y

MaxOf(S) == CHOOSE x \in S : \A y \in S : x >= y

IsInjective(s) == \A i, j \in DOMAIN s : i # j => s[i] # s[j]

SeqsNoDup(S, n) == {s \in UNION {[1..k -> S] : k \in 0..n} : IsInjective(s)}

-----------------------------------------------------------------------------
(* database.py: the raw_yield_data table *)

RawYieldData(series_id, series_name, data_type, date, value) ==
    [series_id |-> series_id, series_name |-> series_name,
     data_type |-> data_type, date |-> date, value |-> value]

\* UniqueConstraint('series_id', 'date', name='uix_series_date')
uix_series_date(table) ==
    \A i, j \in DOMAIN table :
        (table[i].series_id = table[j].series_id /\ table[i].date = table[j].date)
            => i = j

-----------------------------------------------------------------------------
(* store_raw_data *)

\* pd.notna(value)
notna(value) == value # NaN

\* A DataFrame: dates as index, tenor labels as columns, one float per cell.
DataFrames ==
    UNION {
        {[index |-> ix, columns |-> cs, value |-> v] :
            v \in [Range(ix) \X Range(cs) -> Yields \cup {NaN}]} :
        <<ix, cs>> \in {p \in SeqsNoDup(Dates, MaxCells) \X SeqsNoDup(IngestColumns, MaxCells) :
                           /\ Len(p[1]) >= 1
                           /\ Len(p[2]) >= 1
                           /\ Len(p[1]) * Len(p[2]) <= MaxCells} }

OneCellFrames == {df \in DataFrames : Len(df.index) * Len(df.columns) = 1}

\* The cells in the order of the two nested loops (lines 47 and 50).
Cells(df) ==
    [k \in 1..(Len(df.index) * Len(df.columns)) |->
        <<df.index[((k - 1) \div Len(df.columns)) + 1],
          df.columns[((k - 1) % Len(df.columns)) + 1]>>]

\* The cells whose column has a series in config.TREASURY_SERIES (line 54),
\* each with its value: <<date, tenor, value>>.
MappedCells(df) ==
    {<<cell[1], cell[2], df.value[cell]>> :
        cell \in {c \in Range(Cells(df)) : TREASURY_SERIES[c[2]] # NoSeries}}

\* self.db.query(RawYieldData).filter_by(series_id=, date=).first():
\* the index of the first matching row, 0 when there is none.
FirstRaw(table, series_id, date) ==
    LET hits == {i \in DOMAIN table :
                    table[i].series_id = series_id /\ table[i].date = date}
    IN  IF hits = {} THEN 0 ELSE MinOf(hits)

\* The session while store_raw_data runs: the rows loaded from the table with
\* the attribute changes made so far, the added objects, and the counter.
NewSession(table) ==
    [rows |-> table, added |-> <<>>, records_stored |-> 0,
     inserted |-> 0, updated |-> 0, untouched |-> 0]

\* StoreCell with the notna test of line 65 left out: a NaN is written to
\* an existing row as a missing value.
StoreCellWritesMissing(sess, table, curve_date, tenor, value) ==
    LET series_id == TREASURY_SERIES[tenor]
        existing  == FirstRaw(table, series_id, curve_date)
    IN  IF series_id = NoSeries THEN sess
        ELSE IF existing # 0
        THEN [sess EXCEPT !.rows[existing].value = IF notna(value) THEN value ELSE None,
                          !.records_stored = @ + 1,
                          !.updated = @ + 1]
        ELSE [sess EXCEPT
                !.added = Append(@, RawYieldData(series_id, tenor, "treasury",
                                     curve_date,
                                     IF notna(value) THEN value ELSE None)),
                !.records_stored = @ + 1,
                !.inserted = @ + 1]

\* StoreCell without the lookup of lines 58-63: every cell is added as a new
\* row.
StoreCellAlwaysAdds(sess, table, curve_date, tenor, value) ==
    LET series_id == TREASURY_SERIES[tenor]
    IN  IF series_id = NoSeries THEN sess
        ELSE [sess EXCEPT
                !.added = Append(@, RawYieldData(series_id, tenor, "treasury",
                                     curve_date,
                                     IF notna(value) THEN value ELSE None)),
                !.records_stored = @ + 1,
                !.inserted = @ + 1]

\* One pass of the inner loop body, lines 51-79.
StoreCell(sess, table, curve_date, tenor, value) ==
    LET series_id == TREASURY_SERIES[tenor]
        existing  == FirstRaw(table, series_id, curve_date)
    IN  IF series_id = NoSeries THEN sess
        ELSE IF existing # 0
        THEN IF notna(value)
             THEN [sess EXCEPT !.rows[existing].value = value,
                               !.records_stored = @ + 1,
                               !.updated = @ + 1]
             ELSE [sess EXCEPT !.records_stored = @ + 1,
                               !.untouched = @ + 1]
        ELSE [sess EXCEPT
                !.added = Append(@, RawYieldData(series_id, tenor, "treasury",
                                     curve_date,
                                     IF notna(value) THEN value ELSE None)),
                !.records_stored = @ + 1,
                !.inserted = @ + 1]

\* The two loops of lines 47-79 over the cells of the frame.
RECURSIVE StoreCells(_, _, _, _)
StoreCells(sess, table, cells, value) ==
    IF cells = <<>> THEN sess
    ELSE StoreCells(StoreCell(sess, table, Head(cells)[1], Head(cells)[2],
                              value[Head(cells)]),
                    table, Tail(cells), value)

\* What self.db.commit() writes: the changed rows in place, the added rows
\* after them.
Flushed(sess) == sess.rows \o sess.added

\* store_raw_data(df).  fail is where the session raises: "query" at a
\* lookup, "commit" at the commit, "none" nowhere.  The method has no
\* handler, so the exception leaves it and nothing is committed.
StoreRawDataResult(table, df, fail) ==
    LET sess == StoreCells(NewSession(table), table, Cells(df), df.value)
        ok   == fail = "none" /\ uix_series_date(Flushed(sess))
    IN  [table    |-> IF ok THEN Flushed(sess) ELSE table,
         raised   |-> ~ok,
         ret      |-> IF ok THEN sess.records_stored ELSE 0,
         inserted |-> IF ok THEN sess.inserted ELSE 0,
         updated  |-> IF ok THEN sess.updated ELSE 0,
         untouched |-> IF ok THEN sess.untouched ELSE 0]

StoreRawData(df, fail) ==
    \E r \in {StoreRawDataResult(raw, df, fail)} :
        /\ Len(r.table) <= MaxRows
        /\ raw' = r.table
        /\ last' = [op |-> "store_raw_data", raised |-> r.raised, ret |-> r.ret,
                    inserted |-> r.inserted, updated |-> r.updated,
                    untouched |-> r.untouched, cells |-> MappedCells(df),
                    fail |-> fail]
        /\ UNCHANGED <<curves, lastStored>>

-----------------------------------------------------------------------------
(* bootstrapping.py: validate_curve_data *)

NonNumeric == 0 - 3000000

isnan(x) == x = NaN

\* np.array(xs, dtype=float) raises ValueError/TypeError
NotNumeric(xs) == \E i \in DOMAIN xs : xs[i] = NonNumeric

Valid(msg) == [is_valid |-> TRUE, msg |-> msg]

Invalid(msg) == [is_valid |-> FALSE, msg |-> msg]

\* validate_curve_data without any of its checks.
validate_nothing(maturities, yields, min_points) == Valid("")

validate_curve_data(maturities, yields, min_points) ==
    IF Len(maturities) # Len(yields)
    THEN Invalid("Maturities and yields have different lengths")
    ELSE IF Len(maturities) < min_points
    THEN Invalid("Insufficient data points")
    ELSE IF NotNumeric(maturities) \/ NotNumeric(yields)
    THEN Invalid("Maturities and yields must be numeric")
    ELSE IF \E i \in DOMAIN maturities : ~isnan(maturities[i]) /\ maturities[i] < 0
    THEN Invalid("Maturities cannot be negative")
    ELSE LET valid_count ==
                 Cardinality({i \in DOMAIN maturities :
                                 ~(isnan(maturities[i]) \/ isnan(yields[i]))})
             unique_maturities ==
                 {maturities[i] : i \in {j \in DOMAIN maturities : ~isnan(maturities[j])}}
         IN  IF valid_count < min_points
             THEN Invalid("Insufficient valid data points")
             ELSE IF Cardinality(unique_maturities) < valid_count
             THEN Invalid("Duplicate maturities detected")
             ELSE Valid("")

-----------------------------------------------------------------------------
(* bootstrapping.py: YieldCurveBootstrapper *)

\* Order of floats under np.argsort: NaN sorts last.
FloatLess(a, b) == IF isnan(a) THEN FALSE ELSE IF isnan(b) THEN TRUE ELSE a < b

\* An argsort that leaves the order as it is.
argsort_identity(xs) == [k \in DOMAIN xs |-> k]

\* np.argsort(xs): the indices of xs in ascending order of value.  Arrays
\* this short are sorted by insertion, so equal values keep their order.
argsort(xs) ==
    LET before(j, i) == FloatLess(xs[j], xs[i]) \/ (~FloatLess(xs[i], xs[j]) /\ j < i)
        rank(i) == Cardinality({j \in DOMAIN xs : before(j, i)}) + 1
    IN  [k \in DOMAIN xs |-> CHOOSE i \in DOMAIN xs : rank(i) = k]

\* np.array(xs)[indices]
Take(xs, indices) == [k \in DOMAIN indices |-> xs[indices[k]]]

\* xs[valid_mask]
RECURSIVE Mask(_, _)
Mask(xs, mask) ==
    IF xs = <<>> THEN <<>>
    ELSE IF Head(mask) THEN <<Head(xs)>> \o Mask(Tail(xs), Tail(mask))
         ELSE Mask(Tail(xs), Tail(mask))

valid_mask(maturities, rates) ==
    [i \in DOMAIN maturities |-> ~(isnan(maturities[i]) \/ isnan(rates[i]))]

\* Fixed point: exp(x) * ExpScale for x = xnum / ExpDen, by the Taylor series.
ExpScale == 10^6

ExpDen == QuartersPerYear * 10^3

RECURSIVE ExpSeries(_, _, _)
ExpSeries(xnum, k, term) ==
    IF term = 0 THEN 0
    ELSE LET a == IF xnum < 0 THEN 0 - xnum ELSE xnum
             signed == IF xnum < 0 /\ k % 2 = 1 THEN 0 - term ELSE term
         IN  signed + ExpSeries(xnum, k + 1, (term * a) \div (ExpDen * (k + 1)))

\* A discount factor that grows with the rate: exp(+zero_rate / 100 * maturity).
DiscountFactorCompounding(zero_rate, maturity) == ExpSeries(zero_rate * maturity, 0, ExpScale)

\* np.exp(-zero_rate / 100.0 * maturity), line 63; the rate is in tenths of
\* a percent and the maturity in quarters, so the exponent is
\* -(rate * maturity) / 4000.
DiscountFactor(zero_rate, maturity) == ExpSeries(0 - (zero_rate * maturity), 0, ExpScale)

\* Forward rates are kept multiplied by FwdScale.
FwdScale == 10^3

\* Forward rates that are the zero rates at every point.
calculate_forward_rates_flat(maturities, zero_rates) ==
    [i \in DOMAIN zero_rates |-> zero_rates[i] * FwdScale]

\* _calculate_forward_rates, lines 152-171
calculate_forward_rates(maturities, zero_rates) ==
    IF Len(maturities) < 2
    THEN [i \in DOMAIN zero_rates |-> zero_rates[i] * FwdScale]
    ELSE [i \in DOMAIN zero_rates |->
            IF i = 1 THEN zero_rates[1] * FwdScale
            ELSE LET t1 == maturities[i - 1]
                     t2 == maturities[i]
                     r1 == zero_rates[i - 1]
                     r2 == zero_rates[i]
                 IN  IF t2 > t1
                     THEN ((r2 * t2 - r1 * t1) * FwdScale) \div (t2 - t1)
                     ELSE zero_rates[i] * FwdScale]

Raised(error) == [raised |-> TRUE, error |-> error]

\* bootstrap_zero_curve without the check of line 55 after the NaN pairs
\* are removed.
bootstrap_zero_curve_keeps_short(maturities, yields) ==
    IF Len(maturities) # Len(yields)
    THEN Raised("ValueError: Maturities and yields must have the same length")
    ELSE IF Len(maturities) < 2
    THEN Raised("ValueError: Need at least 2 data points for bootstrapping")
    ELSE LET sorted_indices == argsort(maturities)
             ms == Take(maturities, sorted_indices)
             ys == Take(yields, sorted_indices)
             m  == Mask(ms, valid_mask(ms, ys))
             y  == Mask(ys, valid_mask(ms, ys))
         IN  [raised           |-> FALSE,
              zero_rates       |-> y,
              discount_factors |-> [i \in DOMAIN y |-> DiscountFactor(y[i], m[i])],
              forward_rates    |-> calculate_forward_rates(m, y)]

\* bootstrap_zero_curve, lines 39-70
bootstrap_zero_curve(maturities, yields) ==
    IF Len(maturities) # Len(yields)
    THEN Raised("ValueError: Maturities and yields must have the same length")
    ELSE IF Len(maturities) < 2
    THEN Raised("ValueError: Need at least 2 data points for bootstrapping")
    ELSE LET sorted_indices == argsort(maturities)
             ms == Take(maturities, sorted_indices)
             ys == Take(yields, sorted_indices)
             m  == Mask(ms, valid_mask(ms, ys))
             y  == Mask(ys, valid_mask(ms, ys))
         IN  IF Len(m) < 2
             THEN Raised("ValueError: Not enough valid data points after removing NaNs")
             ELSE [raised           |-> FALSE,
                   zero_rates       |-> y,
                   discount_factors |-> [i \in DOMAIN y |-> DiscountFactor(y[i], m[i])],
                   forward_rates    |-> calculate_forward_rates(m, y)]

\* The interpolator chosen at lines 117-122.
\* The selection with the cubic spline taken from three points on.
InterpolatorCubicFromThree(method, n) ==
    IF method = "cubic" /\ n >= 3 THEN "CubicSpline"
    ELSE IF method = "quadratic" /\ n >= 3 THEN "quadratic"
    ELSE "linear"

\* The interpolator of lines 117-122.
Interpolator(method, n) ==
    IF method = "cubic" /\ n >= 4 THEN "CubicSpline"
    ELSE IF method = "quadratic" /\ n >= 3 THEN "quadratic"
    ELSE "linear"

\* int((max_maturity - min_maturity) * 365) + 1 with the difference a
\* number of quarters: the grid size that rounds to the nearest whole number
\* instead of truncating.
DefaultGridSizeRounded(min_maturity, max_maturity) ==
    ((2 * (max_maturity - min_maturity) * DaysPerYear + QuartersPerYear)
        \div (2 * QuartersPerYear)) + 1

\* num_points of line 111: int() truncates, and the difference is not
\* negative after the sort.
DefaultGridSize(min_maturity, max_maturity) ==
    (((max_maturity - min_maturity) * DaysPerYear) \div QuartersPerYear) + 1

\* interpolate_curve(maturities, rates) with no target grid, lines 90-135.
\* The two returned arrays have num_points entries; they are kept as the
\* sorted knots the interpolator was built on, the grid size and the clip
\* bounds, from which every entry is determined.  Rates are doubled so that
\* max * 1.5 stays an integer.
interpolate_curve(method, maturities, rates) ==
    LET m0 == Mask(maturities, valid_mask(maturities, rates))
        r0 == Mask(rates, valid_mask(maturities, rates))
    IN  IF Len(m0) < 2
        THEN Raised("ValueError: Need at least 2 valid points for interpolation")
        ELSE LET sorted_indices == argsort(m0)
                 m == Take(m0, sorted_indices)
                 r == Take(r0, sorted_indices)
                 min_maturity == m[1]
                 max_maturity == m[Len(m)]
             IN  [raised       |-> FALSE,
                  maturities   |-> m,
                  rates        |-> r,
                  num_points   |-> DefaultGridSize(min_maturity, max_maturity),
                  interpolator |-> Interpolator(method, Len(m)),
                  min_rate2    |-> 2 * (IF MinOf(Range(r)) < 0 THEN MinOf(Range(r)) ELSE 0),
                  max_rate2    |-> 3 * MaxOf(Range(r))]

\* np.clip(x, lo, hi) == minimum(maximum(x, lo), hi)
clip(x, lo, hi) ==
    LET up == IF x < lo THEN lo ELSE x
    IN  IF up > hi THEN hi ELSE up

\* The last entry of the interpolated arrays: the grid ends on the largest
\* knot (np.linspace includes the end point), every interpolator passes
\* through its knots, and the value is clipped.  The rate is doubled.
LastInterpolated(c) ==
    [maturity |-> c.maturities[Len(c.maturities)],
     rate2    |-> clip(2 * c.rates[Len(c.rates)], c.min_rate2, c.max_rate2)]

\* The first entry, the same way.
FirstInterpolated(c) ==
    [maturity |-> c.maturities[1],
     rate2    |-> clip(2 * c.rates[1], c.min_rate2, c.max_rate2)]

\* A float that need not be a whole number, as an exact fraction; a zero
\* denominator is NaN.
Frac(num, den) == [num |-> num, den |-> den]

FracNaN == Frac(0, 0)

FracIsNaN(a) == a.den = 0

\* Comparisons of floats: every comparison with NaN is false.
FracEq(a, b) == a.den # 0 /\ b.den # 0 /\ a.num * b.den = b.num * a.den

FracLeq(a, b) == a.den # 0 /\ b.den # 0 /\ a.num * b.den <= b.num * a.den

FracLess(a, b) == a.den # 0 /\ b.den # 0 /\ a.num * b.den < b.num * a.den

\* np.linspace(min_maturity, max_maturity, num_points)[k - 1], line 112: the
\* k-th entry of the grid of a curve interpolated without a target grid.
GridPoint(c, k) ==
    LET min_maturity == c.maturities[1]
        max_maturity == c.maturities[Len(c.maturities)]
    IN  IF c.num_points = 1 THEN Frac(min_maturity, 1)
        ELSE Frac(min_maturity * (c.num_points - 1) + (k - 1) * (max_maturity - min_maturity),
                  c.num_points - 1)

\* calculate_spreads that returns the size of each difference.
calculate_spreads_absolute(corporate_yields, treasury_yields) ==
    IF Len(corporate_yields) # Len(treasury_yields)
    THEN Raised("ValueError: Corporate and treasury yield arrays must have the same length")
    ELSE [raised  |-> FALSE,
          spreads |-> [i \in DOMAIN corporate_yields |->
                          IF corporate_yields[i] < treasury_yields[i]
                          THEN treasury_yields[i] - corporate_yields[i]
                          ELSE corporate_yields[i] - treasury_yields[i]]]

\* calculate_spreads, lines 188-196
calculate_spreads(corporate_yields, treasury_yields) ==
    IF Len(corporate_yields) # Len(treasury_yields)
    THEN Raised("ValueError: Corporate and treasury yield arrays must have the same length")
    ELSE [raised  |-> FALSE,
          spreads |-> [i \in DOMAIN corporate_yields |->
                          corporate_yields[i] - treasury_yields[i]]]

RECURSIVE SumOf(_)
SumOf(xs) == IF xs = <<>> THEN 0 ELSE Head(xs) + SumOf(Tail(xs))

\* smooth_curve, lines 215-232; smoothing_factor is a fraction, int()
\* truncates, and positions are counted from 0 as in the code.
smooth_curve(maturities, rates, smoothing_factor) ==
    IF Len(rates) < 3 THEN [i \in DOMAIN rates |-> Frac(rates[i], 1)]
    ELSE LET truncated   == (Len(rates) * smoothing_factor.num) \div smoothing_factor.den
             at_least    == IF truncated > 3 THEN truncated ELSE 3
             window_size == IF at_least % 2 = 0 THEN at_least + 1 ELSE at_least
             half_window == window_size \div 2
         IN  [k \in DOMAIN rates |->
                 LET i == k - 1
                 IN  IF half_window <= i /\ i < Len(rates) - half_window
                     THEN Frac(SumOf(SubSeq(rates, k - half_window, k + half_window)),
                               window_size)
                     ELSE Frac(rates[k], 1)]

\* A fraction with a positive denominator.
FracNorm(a) == IF a.den < 0 THEN Frac(0 - a.num, 0 - a.den) ELSE a

RECURSIVE ProductOf(_)
ProductOf(xs) == IF xs = <<>> THEN 1 ELSE Head(xs) * ProductOf(Tail(xs))

\* interp1d(kind='linear', fill_value='extrapolate') on the sorted knots m
\* with rates r, at x: the segment is found by searchsorted and clipped to
\* the first and the last one, so a point outside the knots lies on the
\* line of the nearest segment.
LinearAt(m, r, x) ==
    LET found == Cardinality({i \in DOMAIN m : FracLess(Frac(m[i], 1), x)})
        hi    == clip(found, 1, Len(m) - 1) + 1
        lo    == hi - 1
    IN  Frac(r[lo] * (m[hi] - m[lo]) * x.den + (r[hi] - r[lo]) * (x.num - m[lo] * x.den),
             (m[hi] - m[lo]) * x.den)

\* The polynomial of degree Len(m) - 1 through the knots, at x, in
\* Lagrange's form.
PolynomialAt(m, r, x) ==
    LET n == Len(m)
        D(k) == ProductOf([j \in 1..n |-> IF j = k THEN 1 ELSE m[k] - m[j]])
        term(i) == r[i]
                     * ProductOf([j \in 1..n |-> IF j = i THEN 1 ELSE x.num - m[j] * x.den])
                     * ProductOf([k \in 1..n |-> IF k = i THEN 1 ELSE D(k)])
        RECURSIVE Sum(_)
        Sum(i) == IF i = 0 THEN 0 ELSE term(i) + Sum(i - 1)
    IN  FracNorm(Frac(Sum(n),
                      ProductOf([j \in 1..(n - 1) |-> x.den]) * ProductOf([k \in 1..n |-> D(k)])))

\* The number of knots on which the spline of an interpolator is one
\* polynomial: three for kind='quadratic' (make_interp_spline with k=2 has no
\* interior knot), four for CubicSpline (not-a-knot at both ends).
SinglePiece(interpolator) == IF interpolator = "CubicSpline" THEN 4 ELSE 3

\* The interpolator of line 118-122 called at x (line 124).  A spline passes
\* through its knots; between them it is evaluated where it is a single
\* polynomial.  CubicSpline(extrapolate=False) is NaN outside the knots.
InterpolatorAt(c, x) ==
    LET m == c.maturities
        r == c.rates
        knots == {i \in DOMAIN m : FracEq(Frac(m[i], 1), x)}
    IN  IF FracIsNaN(x) THEN FracNaN
        ELSE IF c.interpolator = "linear" THEN LinearAt(m, r, x)
        ELSE IF /\ c.interpolator = "CubicSpline"
                /\ (FracLess(x, Frac(m[1], 1)) \/ FracLess(Frac(m[Len(m)], 1), x))
        THEN FracNaN
        ELSE IF knots # {} THEN Frac(r[CHOOSE i \in knots : TRUE], 1)
        ELSE PolynomialAt(m, r, x)

\* np.clip on floats: NaN stays NaN.
FracClip(x, lo, hi) ==
    IF FracIsNaN(x) THEN x
    ELSE LET up == IF FracLess(x, lo) THEN lo ELSE x
         IN  IF FracLess(hi, up) THEN hi ELSE up

\* One entry of interpolated_rates after the clip of line 129.
InterpolatedRate(c, x) ==
    FracClip(InterpolatorAt(c, x), Frac(c.min_rate2, 2), Frac(c.max_rate2, 2))

\* interpolate_curve(maturities, rates, target_maturities), lines 90-135,
\* with a target grid given.
interpolate_curve_on(method, maturities, rates, target_maturities) ==
    LET c == interpolate_curve(method, maturities, rates)
    IN  IF c.raised THEN c
        ELSE [raised            |-> FALSE,
              curve             |-> c,
              target_maturities |-> target_maturities,
              rates             |-> [k \in DOMAIN target_maturities |->
                                        InterpolatedRate(c, target_maturities[k])]]

-----------------------------------------------------------------------------
(* database.py: the bootstrapped_curves table *)

BootstrappedCurve(curve_type, curve_date, maturities, yields, discount_factors, forward_rates, curve_metadata) ==
    [curve_type |-> curve_type, curve_date |-> curve_date,
     maturities |-> maturities, yields |-> yields,
     discount_factors |-> discount_factors, forward_rates |-> forward_rates,
     curve_metadata |-> curve_metadata]

\* A table without the unique constraint.
uix_curve_type_date_absent(table) == TRUE

\* UniqueConstraint('curve_type', 'curve_date', name='uix_curve_type_date')
uix_curve_type_date(table) ==
    \A i, j \in DOMAIN table :
        (table[i].curve_type = table[j].curve_type
            /\ table[i].curve_date = table[j].curve_date) => i = j

\* A Python None returned in place of a dictionary.
Null == [is_none |-> TRUE]

-----------------------------------------------------------------------------
(* build_curve *)

\* self.db.query(RawYieldData).filter_by(data_type='treasury', date=).all()
QueryRawByDate(table, curve_date) ==
    SelectSeq(table, LAMBDA row : row.data_type = "treasury" /\ row.date = curve_date)

\* The loop of lines 110-114: the rows with a mapped tenor and a value.
Usable(raw_data) ==
    SelectSeq(raw_data, LAMBDA record :
        record.series_name \in DOMAIN TREASURY_MATURITIES /\ record.value # None)

ExtractMaturities(raw_data) ==
    LET usable == Usable(raw_data)
    IN  [i \in DOMAIN usable |-> TREASURY_MATURITIES[usable[i].series_name]]

ExtractYields(raw_data) ==
    LET usable == Usable(raw_data)
    IN  [i \in DOMAIN usable |-> usable[i].value]

BuildOutcome(raised, ret, validated, bootstrapped) ==
    [raised |-> raised, ret |-> ret, validated |-> validated,
     bootstrapped |-> bootstrapped]

\* build_curve(curve_date).  fail = "query" is a storage exception at the
\* query of line 97, which is outside the try block; exc is an exception
\* raised inside the try block of lines 127-158, by the bootstrapper's own
\* checks or by anything else.
build_curve(table, curve_date, fail, exc) ==
    IF fail = "query" THEN BuildOutcome(TRUE, Null, FALSE, FALSE)
    ELSE LET raw_data   == QueryRawByDate(table, curve_date)
             maturities == ExtractMaturities(raw_data)
             yields     == ExtractYields(raw_data)
             verdict    == validate_curve_data(maturities, yields, MIN_DATA_POINTS)
             boot       == bootstrap_zero_curve(maturities, yields)
             interp     == interpolate_curve(BOOTSTRAPPING_INTERPOLATION_METHOD,
                                             maturities, boot.zero_rates)
         IN  IF raw_data = <<>> THEN BuildOutcome(FALSE, Null, FALSE, FALSE)
             ELSE IF ~verdict.is_valid THEN BuildOutcome(FALSE, Null, FALSE, FALSE)
             ELSE IF exc \/ boot.raised \/ interp.raised
             THEN BuildOutcome(FALSE, Null, TRUE, TRUE)
             ELSE BuildOutcome(FALSE,
                     [curve_type       |-> "treasury",
                      curve_date       |-> curve_date,
                      maturities       |-> maturities,
                      yields           |-> yields,
                      interpolated     |-> interp,
                      discount_factors |-> boot.discount_factors,
                      forward_rates    |-> boot.forward_rates],
                     TRUE, TRUE)

-----------------------------------------------------------------------------
(* store_curve *)

\* self.db.query(BootstrappedCurve).filter_by(curve_type=, curve_date=).first()
FirstCurve(table, curve_type, curve_date) ==
    LET hits == {i \in DOMAIN table :
                    table[i].curve_type = curve_type /\ table[i].curve_date = curve_date}
    IN  IF hits = {} THEN 0 ELSE MinOf(hits)

CurveMetadata(curve_data) ==
    [interpolated         |-> curve_data.interpolated,
     interpolation_method |-> BOOTSTRAPPING_INTERPOLATION_METHOD]

\* Upserted with the update branch leaving the derived arrays and the
\* metadata of the existing record as they were.
UpsertedSparseOnly(table, curve_data) ==
    LET existing == FirstCurve(table, curve_data.curve_type, curve_data.curve_date)
    IN  IF existing # 0
        THEN [table EXCEPT ![existing] =
                [@ EXCEPT !.maturities = curve_data.maturities,
                          !.yields = curve_data.yields]]
        ELSE Append(table,
                BootstrappedCurve(curve_data.curve_type, curve_data.curve_date,
                                  curve_data.maturities, curve_data.yields,
                                  curve_data.discount_factors,
                                  curve_data.forward_rates,
                                  CurveMetadata(curve_data)))

\* Upserted with the update branch extending the sparse arrays of the
\* existing record instead of replacing them.
UpsertedExtendsArrays(table, curve_data) ==
    LET existing == FirstCurve(table, curve_data.curve_type, curve_data.curve_date)
    IN  IF existing # 0
        THEN [table EXCEPT ![existing] =
                [@ EXCEPT !.maturities = @ \o curve_data.maturities,
                          !.yields = @ \o curve_data.yields,
                          !.discount_factors = curve_data.discount_factors,
                          !.forward_rates = curve_data.forward_rates,
                          !.curve_metadata = CurveMetadata(curve_data)]]
        ELSE Append(table,
                BootstrappedCurve(curve_data.curve_type, curve_data.curve_date,
                                  curve_data.maturities, curve_data.yields,
                                  curve_data.discount_factors,
                                  curve_data.forward_rates,
                                  CurveMetadata(curve_data)))

\* Lines 177-203: the table as the session holds it before the commit.
Upserted(table, curve_data) ==
    LET existing == FirstCurve(table, curve_data.curve_type, curve_data.curve_date)
    IN  IF existing # 0
        THEN [table EXCEPT ![existing] =
                [@ EXCEPT !.maturities = curve_data.maturities,
                          !.yields = curve_data.yields,
                          !.discount_factors = curve_data.discount_factors,
                          !.forward_rates = curve_data.forward_rates,
                          !.curve_metadata = CurveMetadata(curve_data)]]
        ELSE Append(table,
                BootstrappedCurve(curve_data.curve_type, curve_data.curve_date,
                                  curve_data.maturities, curve_data.yields,
                                  curve_data.discount_factors,
                                  curve_data.forward_rates,
                                  CurveMetadata(curve_data)))

\* Lines 177-203 for a session whose lookup returned the row at position
\* existing (0: none): the table as the commit would leave it.
Staged(table, existing, curve_data) ==
    IF existing # 0
    THEN [table EXCEPT ![existing] =
            [@ EXCEPT !.maturities = curve_data.maturities,
                      !.yields = curve_data.yields,
                      !.discount_factors = curve_data.discount_factors,
                      !.forward_rates = curve_data.forward_rates,
                      !.curve_metadata = CurveMetadata(curve_data)]]
    ELSE Append(table,
            BootstrappedCurve(curve_data.curve_type, curve_data.curve_date,
                              curve_data.maturities, curve_data.yields,
                              curve_data.discount_factors,
                              curve_data.forward_rates,
                              CurveMetadata(curve_data)))

\* A rollback that does nothing: the session's changes stay.
RollbackKeepsChanges(committed, working) == working

\* self.db.rollback(): the table goes back to what was last committed.
Rollback(committed, working) == committed

\* store_curve(curve_data).  fail is the step at which the session raises:
\* "lookup" (line 172), "flush" (the INSERT or UPDATE sent by the commit),
\* "commit" (the COMMIT itself), or "none".
store_curve(table, curve_data, fail) ==
    LET working == Upserted(table, curve_data)
        ok == fail = "none" /\ uix_curve_type_date(working)
    IN  IF ok
        THEN [table |-> working, ret |-> TRUE, raised |-> FALSE]
        ELSE [table |-> IF fail = "lookup" THEN Rollback(table, table)
                        ELSE Rollback(table, working),
              ret |-> FALSE, raised |-> FALSE]

-----------------------------------------------------------------------------
(* build_curves_for_date_range *)

\* Lines 232-238: the distinct dates of the family's rows in the range, in
\* ascending order.
RECURSIVE SortedSeq(_)
SortedSeq(S) ==
    IF S = {} THEN <<>> ELSE <<MinOf(S)>> \o SortedSeq(S \ {MinOf(S)})

UniqueDates(table, start_date, end_date) ==
    SortedSeq({table[i].date : i \in {j \in DOMAIN table :
                  /\ table[j].data_type = "treasury"
                  /\ table[j].date >= start_date
                  /\ table[j].date <= end_date}})

\* What can go wrong at one date of the loop: nothing, the query of
\* build_curve, an exception inside its try block, or a step of store_curve.
DateFailures == {"none", "query", "exc", "commit"}

StoreFailureOf(f) == IF f \in {"lookup", "flush", "commit"} THEN f ELSE "none"

\* The state of the loop of lines 243-248.
LoopStart(curveTable, stored) ==
    [table |-> curveTable, stored |-> stored, successful |-> 0, failed |-> 0,
     raised |-> FALSE, outcome |-> [d \in Dates |-> "not processed"],
     order |-> <<>>]

\* LoopBody with one transaction for the whole loop: a failing date undoes
\* the records of the dates processed before it.
LoopBodyOneTransaction(acc, rawTable, curve_date, f) ==
    LET b == build_curve(rawTable, curve_date, IF f = "query" THEN "query" ELSE "none",
                         f = "exc")
        s == store_curve(acc.table, b.ret, StoreFailureOf(f))
        undone == SelectSeq(acc.table, LAMBDA row : row.curve_date \notin Range(acc.order))
    IN  IF b.raised
        THEN [acc EXCEPT !.raised = TRUE, !.outcome[curve_date] = "raised",
                         !.order = Append(@, curve_date)]
        ELSE IF b.ret # Null /\ s.ret
        THEN [acc EXCEPT !.table = s.table,
                         !.stored[curve_date] = b.ret,
                         !.successful = @ + 1,
                         !.outcome[curve_date] = "stored",
                         !.order = Append(@, curve_date)]
        ELSE [acc EXCEPT !.table = undone,
                         !.failed = @ + 1,
                         !.outcome[curve_date] =
                             IF b.ret = Null THEN "no curve" ELSE "store failed",
                         !.order = Append(@, curve_date)]

\* One iteration of the loop for curve_date.
LoopBody(acc, rawTable, curve_date, f) ==
    LET b == build_curve(rawTable, curve_date, IF f = "query" THEN "query" ELSE "none",
                         f = "exc")
        s == store_curve(acc.table, b.ret, StoreFailureOf(f))
    IN  IF b.raised
        THEN [acc EXCEPT !.raised = TRUE, !.outcome[curve_date] = "raised",
                         !.order = Append(@, curve_date)]
        ELSE IF b.ret # Null /\ s.ret
        THEN [acc EXCEPT !.table = s.table,
                         !.stored[curve_date] = b.ret,
                         !.successful = @ + 1,
                         !.outcome[curve_date] = "stored",
                         !.order = Append(@, curve_date)]
        ELSE [acc EXCEPT !.table = IF b.ret # Null THEN s.table ELSE @,
                         !.failed = @ + 1,
                         !.outcome[curve_date] =
                             IF b.ret = Null THEN "no curve" ELSE "store failed",
                         !.order = Append(@, curve_date)]

RECURSIVE Loop(_, _, _, _, _)
Loop(acc, rawTable, unique_dates, k, f) ==
    IF k > Len(unique_dates) \/ acc.raised THEN acc
    ELSE Loop(LoopBody(acc, rawTable, unique_dates[k], f[unique_dates[k]]),
              rawTable, unique_dates, k + 1, f)

\* build_curves_for_date_range(start_date, end_date).  fail_dates is a
\* storage exception at the query of line 232; f gives the failure met at
\* each date.
build_curves_for_date_range(rawTable, curveTable, stored, start_date, end_date, fail_dates, f) ==
    IF fail_dates THEN [LoopStart(curveTable, stored) EXCEPT !.raised = TRUE]
    ELSE Loop(LoopStart(curveTable, stored), rawTable,
              UniqueDates(rawTable, start_date, end_date), 1, f)

-----------------------------------------------------------------------------
(* get_curve, get_latest_curve *)

MaxPointsChoices == {0, 1, 2, 3}

\* np.linspace(0, n - 1, max_points, dtype=int) taking the first
\* max_points positions.
LinspaceIntLeading(n, max_points) == [k \in 1..max_points |-> k]

\* np.linspace(0, n - 1, max_points, dtype=int), as 1-based positions
LinspaceInt(n, max_points) ==
    [k \in 1..max_points |->
        IF max_points = 1 THEN 1
        ELSE (((k - 1) * (n - 1)) \div (max_points - 1)) + 1]

\* get_curve that reads the first row of the table, whatever its date.
get_curve_first_row(table, curve_date, max_points, fail) ==
    IF fail = "query" THEN [raised |-> TRUE, ret |-> Null]
    ELSE LET i == FirstCurve(table, "treasury", curve_date)
             curve == table[1]
             interpolated == curve.curve_metadata.interpolated
             downsample == /\ max_points # 0
                           /\ interpolated # Null
                           /\ interpolated.num_points > max_points
         IN  IF i = 0 THEN [raised |-> FALSE, ret |-> Null]
             ELSE [raised |-> FALSE,
                   ret |-> [curve_type          |-> curve.curve_type,
                            curve_date          |-> curve.curve_date,
                            interpolated        |-> interpolated,
                            downsampled         |-> downsample,
                            indices             |-> IF downsample
                                                    THEN LinspaceInt(interpolated.num_points,
                                                                     max_points)
                                                    ELSE <<>>,
                            yield_indices       |-> IF downsample
                                                    THEN LinspaceInt(interpolated.num_points,
                                                                     max_points)
                                                    ELSE <<>>,
                            discount_factors    |-> curve.discount_factors,
                            forward_rates       |-> curve.forward_rates,
                            original_maturities |-> curve.maturities,
                            original_yields     |-> curve.yields]]

\* get_curve(curve_date, max_points); max_points = 0 stands for None, and
\* interpolated = Null for a record stored without an interpolated series.
\* The returned 'maturities' and 'yields' are the stored interpolated arrays,
\* their entries at the positions in indices (line 283) and yield_indices
\* (line 284) when downsampled, or the sparse arrays when there is no
\* interpolated series.
get_curve(table, curve_date, max_points, fail) ==
    IF fail = "query" THEN [raised |-> TRUE, ret |-> Null]
    ELSE LET i == FirstCurve(table, "treasury", curve_date)
             curve == table[i]
             interpolated == curve.curve_metadata.interpolated
             downsample == /\ max_points # 0
                           /\ interpolated # Null
                           /\ interpolated.num_points > max_points
         IN  IF i = 0 THEN [raised |-> FALSE, ret |-> Null]
             ELSE [raised |-> FALSE,
                   ret |-> [curve_type          |-> curve.curve_type,
                            curve_date          |-> curve.curve_date,
                            interpolated        |-> interpolated,
                            downsampled         |-> downsample,
                            indices             |-> IF downsample
                                                    THEN LinspaceInt(interpolated.num_points,
                                                                     max_points)
                                                    ELSE <<>>,
                            yield_indices       |-> IF downsample
                                                    THEN LinspaceInt(interpolated.num_points,
                                                                     max_points)
                                                    ELSE <<>>,
                            discount_factors    |-> curve.discount_factors,
                            forward_rates       |-> curve.forward_rates,
                            original_maturities |-> curve.maturities,
                            original_yields     |-> curve.yields]]

\* len(ret['maturities']), lines 283 and 289.
ReturnedLength(ret) ==
    IF ret.interpolated = Null THEN Len(ret.original_maturities)
    ELSE IF ret.downsampled THEN Len(ret.indices)
    ELSE ret.interpolated.num_points

\* ret['maturities'][k - 1], lines 283 and 289.
ReturnedMaturity(ret, k) ==
    IF ret.interpolated = Null THEN Frac(ret.original_maturities[k], 1)
    ELSE GridPoint(ret.interpolated, IF ret.downsampled THEN ret.indices[k] ELSE k)

\* get_latest_curve that orders by curve_date ascending.
get_earliest_curve(table, fail) ==
    IF fail = "query" THEN [raised |-> TRUE, ret |-> Null]
    ELSE LET mine == {i \in DOMAIN table : table[i].curve_type = "treasury"}
             earliest == MinOf({table[i].curve_date : i \in mine})
         IN  IF mine = {} THEN [raised |-> FALSE, ret |-> Null]
             ELSE get_curve(table, earliest, 0,
                            IF fail = "second" THEN "query" ELSE "none")

\* get_latest_curve(): fail = "query" raises at line 304, "second" at the
\* query of the get_curve it delegates to.
get_latest_curve(table, fail) ==
    IF fail = "query" THEN [raised |-> TRUE, ret |-> Null]
    ELSE LET mine == {i \in DOMAIN table : table[i].curve_type = "treasury"}
             latest == MaxOf({table[i].curve_date : i \in mine})
         IN  IF mine = {} THEN [raised |-> FALSE, ret |-> Null]
             ELSE get_curve(table, latest, 0,
                            IF fail = "second" THEN "query" ELSE "none")

-----------------------------------------------------------------------------------------------------------------------------------------------------
(* Tables the store can hold *)

\* The raw tables store_raw_data leaves for one date: one row per tenor of
\* a sequence of distinct tenors (the insertion order), each with a value or
\* with None.
TablesOn(curve_date, tenorSeqs, values) ==
    UNION {
        {[i \in DOMAIN ts |->
             RawYieldData(TREASURY_SERIES[ts[i]], ts[i], "treasury", curve_date, v[i])] :
            v \in [DOMAIN ts -> values]} :
        ts \in tenorSeqs }

\* One date, every subset of the four tenors in every insertion order.
BuildTables == TablesOn(1, SeqsNoDup(Tenors, Cardinality(Tenors)), Yields \cup {None})

\* Two dates, the first tenors of config.TREASURY_SERIES inserted in its
\* order, the rows of either date first.
RangeTenorSeqs == {<<>>, <<"1Y">>, <<"1Y", "2Y">>, <<"1Y", "2Y", "10Y">>}

RangeTables ==
    {t1 \o t2 : t1 \in TablesOn(1, RangeTenorSeqs, {None, 42}),
                t2 \in TablesOn(2, RangeTenorSeqs, {None, 42})}
    \cup
    {t2 \o t1 : t1 \in TablesOn(1, RangeTenorSeqs, {None, 42}),
                t2 \in TablesOn(2, RangeTenorSeqs, {None, 42})}

\* The dictionaries build_curve returns for complete three-tenor dates.
BuiltCurves ==
    {build_curve(t, d, "none", FALSE).ret :
        t \in UNION {TablesOn(d, {<<"1Y", "2Y", "10Y">>}, Yields) : d \in Dates},
        d \in Dates} \ {Null}

\* Dictionaries whose interpolated arrays hold four evenly spaced points.
CoarseCurves ==
    {[c EXCEPT !.interpolated.num_points = 4] :
        c \in {b \in BuiltCurves : \A i \in DOMAIN b.yields : b.yields[i] = 42}}

\* The dictionaries store_curve is given: those of build_curve, and the same
\* without the two interpolated arrays (curve_data.get(...) is then None).
CurveInputs ==
    BuiltCurves \cup {[c EXCEPT !.interpolated = Null] : c \in BuiltCurves}
        \cup CoarseCurves

-----------------------------------------------------------------------------
(* The builder's operations as actions *)

NoCurves == [d \in Dates |-> Null]

InitEmpty ==
    /\ raw = <<>>
    /\ curves = <<>>
    /\ lastStored = NoCurves
    /\ last = [op |-> "init", raised |-> FALSE]

BuildCurve(curve_date, fail, exc) ==
    \E b \in {build_curve(raw, curve_date, fail, exc)} :
        /\ last' = [op |-> "build_curve", raised |-> b.raised, date |-> curve_date,
                    ret |-> b.ret, validated |-> b.validated,
                    bootstrapped |-> b.bootstrapped, fail |-> fail, exc |-> exc]
        /\ UNCHANGED <<raw, curves, lastStored>>

StoreCurve(curve_data, fail) ==
    \E s \in {store_curve(curves, curve_data, fail)} :
        /\ curves' = s.table
        /\ lastStored' = IF s.ret
                         THEN [lastStored EXCEPT ![curve_data.curve_date] = curve_data]
                         ELSE lastStored
        /\ last' = [op |-> "store_curve", raised |-> s.raised, ret |-> s.ret,
                    date |-> curve_data.curve_date, fail |-> fail,
                    before |-> curves]
        /\ UNCHANGED raw

BuildCurvesForDateRange(start_date, end_date, fail_dates, f) ==
    \E r \in {build_curves_for_date_range(raw, curves, lastStored, start_date,
                                          end_date, fail_dates, f)} :
        /\ curves' = r.table
        /\ lastStored' = r.stored
        /\ last' = [op |-> "build_curves_for_date_range", raised |-> r.raised,
                    ret |-> <<r.successful, r.failed>>,
                    start_date |-> start_date, end_date |-> end_date,
                    outcome |-> r.outcome, order |-> r.order, before |-> curves]
        /\ UNCHANGED raw

GetCurve(curve_date, max_points, fail) ==
    \E g \in {get_curve(curves, curve_date, max_points, fail)} :
        /\ last' = [op |-> "get_curve", raised |-> g.raised, ret |-> g.ret,
                    date |-> curve_date, max_points |-> max_points,
                    fail |-> fail]
        /\ UNCHANGED <<raw, curves, lastStored>>

GetLatestCurve(fail) ==
    \E g \in {get_latest_curve(curves, fail)} :
        /\ last' = [op |-> "get_latest_curve", raised |-> g.raised, ret |-> g.ret,
                    fail |-> fail]
        /\ UNCHANGED <<raw, curves, lastStored>>

-----------------------------------------------------------------------------
(* Spec: one date's observations, built, stored and read back *)

Init ==
    /\ raw \in BuildTables
    /\ curves = <<>>
    /\ lastStored = NoCurves
    /\ last = [op |-> "init", raised |-> FALSE]

\* The caller stores what build_curve has just returned.
StoreBuilt(fail) ==
    /\ last.op = "build_curve"
    /\ last.ret # Null
    /\ StoreCurve(last.ret, fail)

Next ==
    \/ \E d \in Dates, fail \in {"none", "query"}, exc \in BOOLEAN : BuildCurve(d, fail, exc)
    \/ \E fail \in {"none", "lookup", "flush", "commit"} : StoreBuilt(fail)
    \/ \E d \in Dates, mp \in {0, 2}, fail \in {"none", "query"} :
          GetCurve(d, mp, fail)

Spec == Init /\ [][Next]_vars

-----------------------------------------------------------------------------
(* SpecIngest: store_raw_data on an empty store *)

\* A failing call leaves the same state whatever the frame.
NextIngest ==
    \/ \E df \in DataFrames : StoreRawData(df, "none")
    \/ \E df \in OneCellFrames, fail \in {"query", "commit"} : StoreRawData(df, fail)

SpecIngest == InitEmpty /\ [][NextIngest]_vars

-----------------------------------------------------------------------------
(* SpecStore: store_curve, get_curve and get_latest_curve on the curve table *)

NextStore ==
    \/ \E curve_data \in CurveInputs, fail \in {"none", "lookup", "flush", "commit"} :
          StoreCurve(curve_data, fail)
    \/ \E d \in Dates, mp \in MaxPointsChoices, fail \in {"none", "query"} :
          GetCurve(d, mp, fail)
    \/ \E fail \in {"none", "query", "second"} : GetLatestCurve(fail)

SpecStore == InitEmpty /\ [][NextStore]_vars

-----------------------------------------------------------------------------
(* SpecRange: build_curves_for_date_range over two dates *)

InitRange ==
    /\ raw \in RangeTables
    /\ curves = <<>>
    /\ lastStored = NoCurves
    /\ last = [op |-> "init", raised |-> FALSE]

NextRange ==
    \/ \E s \in Dates, e \in Dates, f \in [Dates -> DateFailures] :
          BuildCurvesForDateRange(s, e, FALSE, f)
    \/ \E s \in Dates, e \in Dates :
          BuildCurvesForDateRange(s, e, TRUE, [d \in Dates |-> "none"])

SpecRange == InitRange /\ [][NextRange]_vars

-----------------------------------------------------------------------------
(* SpecValidate: validate_curve_data on lists of every kind *)

SeqsUpTo(S, n) == UNION {[1..k -> S] : k \in 0..n}

\* What a list of maturities can hold: a negative number, two maturities,
\* NaN, and something np.array(dtype=float) does not convert.
ValidateMaturities == {0 - 1, 1, 2, NaN, NonNumeric}

ValidateYields == {42, NaN, NonNumeric}

MinPointsChoices == {2, 3}

ValidateCurveData(maturities, yields, min_points) ==
    /\ last' = [op |-> "validate_curve_data", raised |-> FALSE,
                maturities |-> maturities, yields |-> yields,
                min_points |-> min_points,
                ret |-> validate_curve_data(maturities, yields, min_points)]
    /\ UNCHANGED <<raw, curves, lastStored>>

\* The function keeps no state: every call is made from the initial state.
NextValidate ==
    /\ last.op = "init"
    /\ \E maturities \in SeqsUpTo(ValidateMaturities, MaxPoints),
          yields \in SeqsUpTo(ValidateYields, MaxPoints),
          min_points \in MinPointsChoices :
           ValidateCurveData(maturities, yields, min_points)

SpecValidate == InitEmpty /\ [][NextValidate]_vars

-----------------------------------------------------------------------------
(* SpecBootstrap: bootstrap_zero_curve on lists in any order *)

BootstrapMaturities == {1, 2, 3, NaN}

BootstrapYields == {0 - 10, 42, 45, 100, NaN}

BootstrapZeroCurve(maturities, yields) ==
    \E b \in {bootstrap_zero_curve(maturities, yields)} :
        /\ last' = [op |-> "bootstrap_zero_curve", raised |-> b.raised,
                    maturities |-> maturities, yields |-> yields, ret |-> b]
        /\ UNCHANGED <<raw, curves, lastStored>>

NextBootstrap ==
    /\ last.op = "init"
    /\ \E maturities \in SeqsUpTo(BootstrapMaturities, MaxPoints),
          yields \in SeqsUpTo(BootstrapYields, MaxPoints) :
           BootstrapZeroCurve(maturities, yields)

SpecBootstrap == InitEmpty /\ [][NextBootstrap]_vars

-----------------------------------------------------------------------------
(* SpecInterp: interpolate_curve with and without a target grid *)

InterpMaturities == {1, 2, 3, 4}

Methods == {"cubic", "quadratic", "linear"}

\* The rate at each maturity, for four curves: rising, of mixed sign, all
\* negative, and with a missing rate.  The rate given with a NaN maturity
\* is immaterial.
RateShapes ==
    { [x \in InterpMaturities \cup {NaN} |->
          CASE x = 1 -> 40 [] x = 2 -> 42 [] x = 3 -> 45 [] x = 4 -> 46 [] OTHER -> 42],
      [x \in InterpMaturities \cup {NaN} |->
          CASE x = 1 -> 0 - 10 [] x = 2 -> 42 [] x = 3 -> 45 [] x = 4 -> 0 - 12 [] OTHER -> 42],
      [x \in InterpMaturities \cup {NaN} |->
          CASE x = 1 -> 0 - 10 [] x = 2 -> 0 - 12 [] x = 3 -> 0 - 10 [] x = 4 -> 0 - 12
            [] OTHER -> 0 - 10],
      [x \in InterpMaturities \cup {NaN} |->
          CASE x = 1 -> 42 [] x = 2 -> NaN [] x = 3 -> 45 [] x = 4 -> 42 [] OTHER -> 42] }

\* The lists interpolate_curve is given: distinct maturities in any order,
\* each with the rate of a shape.
InterpInputs ==
    {[maturities |-> m, rates |-> [i \in DOMAIN m |-> shape[m[i]]]] :
        m \in SeqsNoDup(InterpMaturities \cup {NaN}, MaxKnots), shape \in RateShapes}

\* A list of maturities as a target grid.
AsTargets(maturities) ==
    [k \in DOMAIN maturities |->
        IF isnan(maturities[k]) THEN FracNaN ELSE Frac(maturities[k], 1)]

\* A target grid with points before, between and after the knots.
OffKnotTargets == <<Frac(0, 1), Frac(3, 2), Frac(5, 2), Frac(6, 1)>>

\* The spline between its knots is modelled where it is one polynomial.
Evaluable(c) ==
    c.interpolator = "linear" \/ Len(c.maturities) = SinglePiece(c.interpolator)

InterpolateCurve(method, maturities, rates) ==
    \E c \in {interpolate_curve(method, maturities, rates)} :
        /\ last' = [op |-> "interpolate_curve", raised |-> c.raised,
                    method |-> method, maturities |-> maturities, rates |-> rates,
                    target |-> "default", ret |-> c]
        /\ UNCHANGED <<raw, curves, lastStored>>

InterpolateCurveOn(method, maturities, rates, target_maturities) ==
    \E c \in {interpolate_curve_on(method, maturities, rates, target_maturities)} :
        /\ last' = [op |-> "interpolate_curve", raised |-> c.raised,
                    method |-> method, maturities |-> maturities, rates |-> rates,
                    target |-> "given", ret |-> c]
        /\ UNCHANGED <<raw, curves, lastStored>>

NextInterp ==
    /\ last.op = "init"
    /\ \/ \E method \in Methods, in \in InterpInputs :
             InterpolateCurve(method, in.maturities, in.rates)
       \/ \E method \in Methods, in \in InterpInputs :
             InterpolateCurveOn(method, in.maturities, in.rates, AsTargets(in.maturities))
       \/ \E method \in Methods, in \in InterpInputs :
             /\ \E c \in {interpolate_curve(method, in.maturities, in.rates)} :
                   IF c.raised THEN TRUE ELSE Evaluable(c)
             /\ InterpolateCurveOn(method, in.maturities, in.rates, OffKnotTargets)

SpecInterp == InitEmpty /\ [][NextInterp]_vars

-----------------------------------------------------------------------------
(* scheduler.py: refresh_all_data *)

\* Lines 161-168 of _refresh_treasury_data: the two counts, from what
\* store_raw_data (r) and build_curves_for_date_range (b) came to.
\* inactive: a flush has failed and the shared session was not rolled back.
TreasuryCounts(rawTable, curveTable, stored, fetch_fails, fail, r, b) ==
    IF fetch_fails \/ r.raised
    THEN [raw |-> rawTable, curves |-> curveTable, stored |-> stored,
          successful |-> 0, failed |-> 1,
          inactive |-> ~fetch_fails /\ fail = "commit"]
    ELSE [raw |-> r.table, curves |-> b.table, stored |-> b.stored,
          successful |-> IF b.raised THEN 0 ELSE b.successful,
          failed |-> IF b.raised THEN 1 ELSE b.failed,
          inactive |-> FALSE]

\* Lines 160-161: the curves are built over the 30 days, which hold every
\* date of Dates, from the rows store_raw_data left.
TreasuryBuilt(rawTable, curveTable, stored, fetch_fails, fail, fail_dates, f, r) ==
    TreasuryCounts(rawTable, curveTable, stored, fetch_fails, fail, r,
                   build_curves_for_date_range(r.table, curveTable, stored,
                                               MinOf(Dates), MaxOf(Dates), fail_dates, f))

\* _refresh_treasury_data(fred_client, db), lines 146-168.  fetch_fails is
\* an exception of the fetch; fail, fail_dates and f are the storage
\* failures of store_raw_data and of build_curves_for_date_range.
refresh_treasury_data(rawTable, curveTable, stored, fetch_fails, df, fail, fail_dates, f) ==
    TreasuryBuilt(rawTable, curveTable, stored, fetch_fails, fail, fail_dates, f,
                  StoreRawDataResult(rawTable, df, fail))

\* What CorporateCurveBuilder and the corporate fetch can come to: the two
\* counts, an exception, or an exception of a flush.
CorporateOutcomes ==
    {[successful |-> s, failed |-> f, raised |-> FALSE, flush_failed |-> FALSE] :
        s \in {0, 1}, f \in {0, 1}}
    \cup {[successful |-> 0, failed |-> 0, raised |-> TRUE, flush_failed |-> ff] :
            ff \in BOOLEAN}

\* _refresh_corporate_data(fred_client, db), lines 179-201: on a session
\* whose flush has failed every use of the session raises.
refresh_corporate_data(inactive, outcome) ==
    IF inactive \/ outcome.raised
    THEN [successful |-> 0, failed |-> 1, inactive |-> inactive \/ outcome.flush_failed]
    ELSE [successful |-> outcome.successful, failed |-> outcome.failed,
          inactive |-> FALSE]

\* The handler of lines 125-132 that leaves the status as it was.
HandleFailureKeepsStatus(committed, inactive, handler_fails) ==
    [log |-> committed, raised |-> inactive \/ handler_fails]

\* The handler of lines 125-132: status 'failed' and a commit on the same
\* session, with no rollback before it and no handler around it.
HandleFailure(committed, inactive, handler_fails) ==
    IF inactive \/ handler_fails
    THEN [log |-> committed, raised |-> TRUE]
    ELSE [log |-> "failed", raised |-> FALSE]

\* Lines 98-135 of refresh_all_data, from what the two refreshes (t, c)
\* came to.  log is the status of the stored DataUpdateLog entry, "absent"
\* when none was stored; escaped: an exception left the try block; raised:
\* one left refresh_all_data.
UpdateLog(rawTable, curveTable, stored, in, t, c) ==
    IF in.log_fails \/ in.client_fails
    THEN [tables |-> [raw |-> rawTable, curves |-> curveTable, stored |-> stored,
                      treasury_failed |-> 0, corporate_failed |-> 0,
                      refreshed |-> FALSE, escaped |-> TRUE],
          end |-> IF in.log_fails
                  THEN HandleFailure("absent", TRUE, in.handler_fails)
                  ELSE HandleFailure("running", FALSE, in.handler_fails)]
    ELSE [tables |-> [raw |-> t.raw, curves |-> t.curves, stored |-> t.stored,
                      treasury_failed |-> t.failed, corporate_failed |-> c.failed,
                      refreshed |-> TRUE,
                      escaped |-> c.inactive \/ in.update_fails],
          end |-> IF c.inactive \/ in.update_fails
                  THEN HandleFailure("running", TRUE, in.handler_fails)
                  ELSE [log |-> IF t.failed + c.failed = 0 THEN "success" ELSE "partial",
                        raised |-> FALSE]]

\* Lines 95-96: the corporate refresh follows the treasury refresh on the
\* same session.
AfterTreasury(rawTable, curveTable, stored, in, t) ==
    UpdateLog(rawTable, curveTable, stored, in, t,
              refresh_corporate_data(t.inactive, in.corporate))

\* refresh_all_data(), lines 75-135.
refresh_all_data(rawTable, curveTable, stored, in) ==
    AfterTreasury(rawTable, curveTable, stored, in,
                  refresh_treasury_data(rawTable, curveTable, stored, in.fetch_fails,
                                        in.df, in.fail, in.fail_dates, in.f))

RefreshAllData(in) ==
    \E r \in {refresh_all_data(raw, curves, lastStored, in)} :
        /\ raw' = r.tables.raw
        /\ curves' = r.tables.curves
        /\ lastStored' = r.tables.stored
        /\ last' = [op |-> "refresh_all_data", raised |-> r.end.raised,
                    log |-> r.end.log, escaped |-> r.tables.escaped,
                    refreshed |-> r.tables.refreshed,
                    treasury_failed |-> r.tables.treasury_failed,
                    corporate_failed |-> r.tables.corporate_failed,
                    in |-> in]

-----------------------------------------------------------------------------
(* SpecRefresh: one scheduled refresh over two dates *)

\* The rows earlier refreshes have left: the first tenors of each date.
RefreshTables ==
    {t1 \o t2 : t1 \in TablesOn(1, RangeTenorSeqs, {42}),
                t2 \in TablesOn(2, RangeTenorSeqs, {42})}

InitRefresh ==
    /\ raw \in RefreshTables
    /\ curves = <<>>
    /\ lastStored = NoCurves
    /\ last = [op |-> "init", raised |-> FALSE]

\* What the fetch returns: one observation of the 10Y tenor, or a missing one.
RefreshFrames ==
    {df \in OneCellFrames : df.columns = <<"10Y">> /\ df.value[df.index[1], "10Y"] # 45}

\* A refresh in which nothing raises but, at the last date, store_curve.
QuietRefreshes ==
    {[log_fails |-> FALSE, client_fails |-> FALSE, fetch_fails |-> FALSE,
      df |-> df, fail |-> "none", fail_dates |-> FALSE, f |-> f,
      corporate |-> c, update_fails |-> FALSE, handler_fails |-> FALSE] :
        df \in RefreshFrames,
        f \in {[d \in Dates |-> "none"],
               [d \in Dates |-> IF d = MaxOf(Dates) THEN "commit" ELSE "none"]},
        c \in CorporateOutcomes}

\* The same with one more exception, and with the handler's commit failing
\* or not.
RefreshInputs ==
    QuietRefreshes
    \cup {[in EXCEPT !.log_fails = TRUE, !.handler_fails = h] :
            in \in QuietRefreshes, h \in BOOLEAN}
    \cup {[in EXCEPT !.client_fails = TRUE, !.handler_fails = h] :
            in \in QuietRefreshes, h \in BOOLEAN}
    \cup {[in EXCEPT !.fetch_fails = TRUE] : in \in QuietRefreshes}
    \cup {[in EXCEPT !.fail = fail] :
            in \in QuietRefreshes, fail \in {"query", "commit"}}
    \cup {[in EXCEPT !.fail_dates = TRUE] : in \in QuietRefreshes}
    \cup {[in EXCEPT !.f = [d \in Dates |-> "query"]] : in \in QuietRefreshes}
    \cup {[in EXCEPT !.update_fails = TRUE, !.handler_fails = h] :
            in \in QuietRefreshes, h \in BOOLEAN}

NextRefresh ==
    /\ last.op = "init"
    /\ \E in \in RefreshInputs : RefreshAllData(in)

SpecRefresh == InitRefresh /\ [][NextRefresh]_vars

-----------------------------------------------------------------------------
(* SpecPair: two store_curve calls for one key, each on its own session *)

Callers == {1, 2}

\* A call of store_curve before its lookup.
Called(curve_data) ==
    [pc |-> "lookup", curve_data |-> curve_data, existing |-> 0, ret |-> FALSE]

\* The key has no record yet, or has the record of an earlier call.
InitPair ==
    /\ raw = <<>>
    /\ \E earlier \in BuiltCurves :
          /\ \/ curves = <<>> /\ lastStored = NoCurves
             \/ /\ curves = Staged(<<>>, 0, earlier)
                /\ lastStored = [NoCurves EXCEPT ![earlier.curve_date] = earlier]
          /\ \E a, b \in {c \in BuiltCurves : c.curve_date = earlier.curve_date} :
                last = [op |-> "store_curve_pair", raised |-> FALSE,
                        calls |-> [c \in Callers |-> Called(IF c = 1 THEN a ELSE b)]]

\* Lines 172-175: the session's query sees what is committed.
Lookup(c) ==
    /\ last.calls[c].pc = "lookup"
    /\ last' = [last EXCEPT
                  !.calls[c].existing =
                      FirstCurve(curves, last.calls[c].curve_data.curve_type,
                                 last.calls[c].curve_data.curve_date),
                  !.calls[c].pc = "commit"]
    /\ UNCHANGED <<raw, curves, lastStored>>

\* Lines 177-212: the staged insert or update is committed, or the storage
\* rejects it and the handler rolls back and returns False.
Commit(c) ==
    /\ last.calls[c].pc = "commit"
    /\ \E working \in {Staged(curves, last.calls[c].existing, last.calls[c].curve_data)} :
          IF uix_curve_type_date(working)
          THEN /\ curves' = working
               /\ lastStored' = [lastStored EXCEPT
                                    ![last.calls[c].curve_data.curve_date] =
                                        last.calls[c].curve_data]
               /\ last' = [last EXCEPT !.calls[c].pc = "done", !.calls[c].ret = TRUE]
          ELSE /\ curves' = Rollback(curves, working)
               /\ lastStored' = lastStored
               /\ last' = [last EXCEPT !.calls[c].pc = "done", !.calls[c].ret = FALSE]
    /\ UNCHANGED raw

NextPair ==
    /\ last.op = "store_curve_pair"
    /\ \E c \in Callers : Lookup(c) \/ Commit(c)

SpecPair == InitPair /\ [][NextPair]_vars

-----------------------------------------------------------------------------
(* SpecSeries: calculate_spreads and smooth_curve *)

SpreadYields == {42, 45, 60}

SmoothRates == {40, 42, 45}

\* smoothing_factor: the default 0.1, 0.9 and 1.
SmoothingFactors == {Frac(1, 10), Frac(9, 10), Frac(1, 1)}

CalculateSpreads(corporate_yields, treasury_yields) ==
    \E r \in {calculate_spreads(corporate_yields, treasury_yields)} :
        /\ last' = [op |-> "calculate_spreads", raised |-> r.raised,
                    corporate_yields |-> corporate_yields,
                    treasury_yields |-> treasury_yields, ret |-> r]
        /\ UNCHANGED <<raw, curves, lastStored>>

SmoothCurve(maturities, rates, smoothing_factor) ==
    /\ last' = [op |-> "smooth_curve", raised |-> FALSE,
                rates |-> rates, smoothing_factor |-> smoothing_factor,
                ret |-> smooth_curve(maturities, rates, smoothing_factor)]
    /\ UNCHANGED <<raw, curves, lastStored>>

NextSeries ==
    /\ last.op = "init"
    /\ \/ \E corporate_yields \in SeqsUpTo(SpreadYields, MaxPoints),
             treasury_yields \in SeqsUpTo(SpreadYields, MaxPoints) :
              CalculateSpreads(corporate_yields, treasury_yields)
       \/ \E rates \in SeqsUpTo(SmoothRates, MaxRates),
             smoothing_factor \in SmoothingFactors :
              SmoothCurve([i \in DOMAIN rates |-> i], rates, smoothing_factor)

SpecSeries == InitEmpty /\ [][NextSeries]_vars

-----------------------------------------------------------------------------
(* Properties *)

\* The (maturity, yield) pairs observed on a date: the rows build_curve uses.
ObservedPairs(table, curve_date) ==
    LET usable == Usable(QueryRawByDate(table, curve_date))
    IN  {<<TREASURY_MATURITIES[usable[i].series_name], usable[i].value>> :
            i \in DOMAIN usable}

\* The clamp envelope [min(min(rates), 0), 1.5 * max(rates)], on doubled rates.
InsideEnvelope(rate, rates) ==
    /\ 2 * (IF MinOf(rates) < 0 THEN MinOf(rates) ELSE 0) <= 2 * rate
    /\ 2 * rate <= 3 * MaxOf(rates)

\* C1: after build_curve(D), store_curve and get_curve(D), the last point of
\* the interpolated series is the largest observed maturity with the yield
\* observed at that maturity, when that yield is inside the clamp envelope,
\* whatever the order in which the rows of D are returned.
C1_LastPointIsObserved ==
    (last.op = "get_curve" /\ ~last.raised /\ last.ret # Null /\ ~last.ret.downsampled)
        => LET pairs == ObservedPairs(raw, last.date)
               top   == CHOOSE p \in pairs : \A q \in pairs : q[1] <= p[1]
               point == LastInterpolated(last.ret.interpolated)
           IN  InsideEnvelope(top[2], {p[2] : p \in pairs})
                   => (point.maturity = top[1] /\ point.rate2 = 2 * top[2])

\* The four arrays of a curve are parallel and ascending in maturity.
ParallelAscending(c) ==
    /\ Len(c.yields) = Len(c.maturities)
    /\ Len(c.discount_factors) = Len(c.maturities)
    /\ Len(c.forward_rates) = Len(c.maturities)
    /\ \A i \in DOMAIN c.maturities :
          c.discount_factors[i] = DiscountFactor(c.yields[i], c.maturities[i])
    /\ \A i, j \in DOMAIN c.maturities : i < j => c.maturities[i] < c.maturities[j]

\* C2: in the record build_curve returns, and in every stored record,
\* maturities, yields, discount_factors and forward_rates are parallel and
\* in ascending order of maturity: discount_factors[i] is
\* exp(-yields[i]/100 * maturities[i]) of the pair at the same index.
C2_ArraysParallel ==
    /\ (last.op = "build_curve" /\ last.ret # Null) => ParallelAscending(last.ret)
    /\ \A i \in DOMAIN curves : ParallelAscending(curves[i])

\* The stored value of a key that has a row.
StoredValue(table, series_id, date) == table[FirstRaw(table, series_id, date)].value

\* C3: a stored non-null value never becomes null; a NaN for an existing key
\* leaves the stored value as it was, a NaN for a new key inserts a row with
\* a null value.
C3_MissingNeverOverwrites ==
    [][ /\ \A i \in DOMAIN raw :
              raw[i].value # None
                  => /\ FirstRaw(raw', raw[i].series_id, raw[i].date) # 0
                     /\ StoredValue(raw', raw[i].series_id, raw[i].date) # None
        /\ (last'.op = "store_raw_data" /\ last'.fail = "none")
              => \A cell \in last'.cells :
                    ~notna(cell[3])
                        => IF FirstRaw(raw, TREASURY_SERIES[cell[2]], cell[1]) # 0
                           THEN StoredValue(raw', TREASURY_SERIES[cell[2]], cell[1])
                                  = StoredValue(raw, TREASURY_SERIES[cell[2]], cell[1])
                           ELSE /\ FirstRaw(raw', TREASURY_SERIES[cell[2]], cell[1]) # 0
                                /\ StoredValue(raw', TREASURY_SERIES[cell[2]], cell[1]) = None
      ]_vars

\* A call has met an existing non-null row with a NaN and a new key with a
\* NaN: the first row keeps its value, the second is inserted as null.
C3_Witness ==
    /\ last.op = "store_raw_data"
    /\ ~last.raised
    /\ last.untouched = 1
    /\ last.inserted = 1
    /\ Len(raw) = 2
    /\ raw[1].value # None
    /\ raw[2].value = None

\* C4: the table holds at most one row per (series_id, date), and after a
\* non-null value v is ingested for an existing key the stored value is v.
C4_OneRowPerKeyOverwritten ==
    /\ [](uix_series_date(raw))
    /\ [][ (last'.op = "store_raw_data" /\ last'.fail = "none")
              => \A cell \in last'.cells :
                    (/\ notna(cell[3])
                     /\ FirstRaw(raw, TREASURY_SERIES[cell[2]], cell[1]) # 0)
                        => StoredValue(raw', TREASURY_SERIES[cell[2]], cell[1]) = cell[3]
         ]_vars

\* A call has overwritten the value of an existing row.
C4_Witness ==
    /\ last.op = "store_raw_data"
    /\ ~last.raised
    /\ last.updated >= 1
    /\ last.inserted = 0
    /\ Len(raw) >= 1

\* The fields store_curve writes, of a stored row and of a dictionary.
StoredFields(row) ==
    <<row.maturities, row.yields, row.discount_factors, row.forward_rates,
      row.curve_metadata.interpolated>>

GivenFields(curve_data) ==
    <<curve_data.maturities, curve_data.yields, curve_data.discount_factors,
      curve_data.forward_rates, curve_data.interpolated>>

\* C5: the curve table holds at most one record per (curve_type, date), and
\* the record of a key has exactly the fields of the most recent successful
\* store_curve for that key.
C5_UpsertKeepsLatest ==
    /\ uix_curve_type_date(curves)
    /\ \A d \in Dates :
          IF lastStored[d] = Null
          THEN FirstCurve(curves, "treasury", d) = 0
          ELSE /\ FirstCurve(curves, "treasury", d) # 0
               /\ StoredFields(curves[FirstCurve(curves, "treasury", d)])
                    = GivenFields(lastStored[d])

\* A successful store_curve has overwritten an existing record that held
\* different yields.
C5_Witness ==
    /\ last.op = "store_curve"
    /\ last.ret
    /\ FirstCurve(last.before, "treasury", last.date) # 0
    /\ last.before[FirstCurve(last.before, "treasury", last.date)].yields
         # curves[FirstCurve(curves, "treasury", last.date)].yields

\* C6: when the session raises at a step of store_curve, the call raises
\* nothing, returns False and leaves the curve table as it was.
C6_FailureRollsBack ==
    (last.op = "store_curve" /\ last.fail # "none")
        => (~last.raised /\ last.ret = FALSE /\ curves = last.before)

\* The commit of an update of an existing record has failed.
C6_Witness ==
    /\ last.op = "store_curve"
    /\ last.fail = "commit"
    /\ last.ret = FALSE
    /\ FirstCurve(curves, "treasury", last.date) # 0

\* The data-failure cases of build_curve for a date.
DataFailure(table, curve_date, exc) ==
    LET raw_data == QueryRawByDate(table, curve_date)
    IN  \/ raw_data = <<>>
        \/ Len(Usable(raw_data)) < MIN_DATA_POINTS
        \/ ~validate_curve_data(ExtractMaturities(raw_data), ExtractYields(raw_data),
                                MIN_DATA_POINTS).is_valid
        \/ exc

\* C7: build_curve returns null and raises nothing when the date has no
\* observations, fewer than min_points usable ones, fails validation, or an
\* exception is raised while bootstrapping or interpolating; the bootstrapper
\* is not invoked after a failed validation.
C7_DataFailureGivesNull ==
    (last.op = "build_curve" /\ last.fail = "none")
        => /\ DataFailure(raw, last.date, last.exc) => (last.ret = Null /\ ~last.raised)
           /\ ~last.validated => (~last.bootstrapped /\ last.ret = Null)

\* build_curve has met a date with observations but fewer than min_points
\* usable ones.
C7_Witness ==
    /\ last.op = "build_curve"
    /\ last.fail = "none"
    /\ ~last.exc
    /\ QueryRawByDate(raw, last.date) # <<>>
    /\ Len(Usable(QueryRawByDate(raw, last.date))) < MIN_DATA_POINTS
    /\ last.ret = Null
    /\ ~last.raised

\* C8: no failure of the session during an upsert, a commit or a query
\* leaves a Builder operation as an exception.
C8_NoExceptionEscapes == ~last.raised

\* The dates build_curves_for_date_range has to process.
DueDates == UniqueDates(raw, last.start_date, last.end_date)

\* The dates of a range whose curve builds and is stored.
Succeeding(dates) ==
    {d \in Range(dates) :
        /\ last.outcome[d] = "stored"
        /\ build_curve(raw, d, "none", FALSE).ret # Null}

\* C9: build_curves_for_date_range processes every date of the range that
\* has a row, in ascending order, and returns (s, f) with s + f the number of
\* those dates and s the number of dates built and stored; a failing date
\* does not stop the later ones.
C9_EveryDateProcessed ==
    (last.op = "build_curves_for_date_range")
        => /\ ~last.raised
           /\ last.order = DueDates
           /\ last.ret[1] + last.ret[2] = Len(DueDates)
           /\ last.ret[1] = Cardinality(Succeeding(DueDates))

\* C10: a record committed for an earlier date of the range is in the table,
\* with the content built for that date, after a later date of the range has
\* given no curve or has failed in store_curve.
C10_EarlierDatesKept ==
    (last.op = "build_curves_for_date_range")
        => \A d1, d2 \in Dates :
              (/\ d1 < d2
               /\ last.outcome[d1] = "stored"
               /\ last.outcome[d2] \in {"no curve", "store failed"})
                  => /\ FirstCurve(curves, "treasury", d1) # 0
                     /\ StoredFields(curves[FirstCurve(curves, "treasury", d1)])
                          = GivenFields(build_curve(raw, d1, "none", FALSE).ret)

\* The first date of a range was stored and store_curve failed for the
\* second.
C10_Witness ==
    /\ last.op = "build_curves_for_date_range"
    /\ last.outcome[1] = "stored"
    /\ last.outcome[2] = "store failed"
    /\ FirstCurve(curves, "treasury", 1) # 0

\* C11: with the observations of a date unchanged, build_curve followed by
\* store_curve run again for a date that already has a record leaves the
\* curve table exactly as it was: one record for the key with the same
\* sparse, derived and interpolated fields.
C11_RebuildIsIdempotent ==
    (/\ last.op = "store_curve"
     /\ last.ret
     /\ FirstCurve(last.before, "treasury", last.date) # 0)
        => /\ curves = last.before
           /\ Cardinality({i \in DOMAIN curves : curves[i].curve_date = last.date}) = 1

\* The curve of a date has been built and stored a second time.
C11_Witness ==
    /\ last.op = "store_curve"
    /\ last.ret
    /\ last.fail = "none"
    /\ FirstCurve(last.before, "treasury", last.date) # 0
    /\ StoredFields(curves[FirstCurve(curves, "treasury", last.date)])
         = GivenFields(build_curve(raw, last.date, "none", FALSE).ret)

\* C12: for a record with a stored interpolated series and max_points >= 1,
\* get_curve returns at most max_points entries, the first of them the first
\* maturity of the stored series and the last of them its last maturity.
C12_DownsampleKeepsEnds ==
    (/\ last.op = "get_curve"
     /\ ~last.raised
     /\ last.ret # Null
     /\ last.ret.interpolated # Null
     /\ last.max_points >= 1)
        => /\ ReturnedLength(last.ret) <= last.max_points
           /\ FracEq(ReturnedMaturity(last.ret, 1), GridPoint(last.ret.interpolated, 1))
           /\ FracEq(ReturnedMaturity(last.ret, ReturnedLength(last.ret)),
                     GridPoint(last.ret.interpolated, last.ret.interpolated.num_points))

\* C13: get_curve returns null when the key has no record; otherwise it
\* returns the stored interpolated series (its entries at the selected
\* positions when downsampled) when one was stored and the sparse arrays
\* when none was, and original_maturities and original_yields are the
\* sparse arrays last given to store_curve for the key.
C13_PrefersInterpolated ==
    (last.op = "get_curve" /\ last.fail = "none")
        => IF lastStored[last.date] = Null
           THEN last.ret = Null
           ELSE /\ last.ret # Null
                /\ last.ret.original_maturities = lastStored[last.date].maturities
                /\ last.ret.original_yields = lastStored[last.date].yields
                /\ last.ret.interpolated = lastStored[last.date].interpolated
                /\ IF lastStored[last.date].interpolated = Null
                   THEN /\ ReturnedLength(last.ret) = Len(lastStored[last.date].maturities)
                        /\ \A k \in 1..ReturnedLength(last.ret) :
                              ReturnedMaturity(last.ret, k)
                                = Frac(lastStored[last.date].maturities[k], 1)
                   ELSE IF last.ret.downsampled
                   THEN /\ ReturnedLength(last.ret) = last.max_points
                        /\ \A k \in DOMAIN last.ret.indices :
                              last.ret.indices[k]
                                \in 1..lastStored[last.date].interpolated.num_points
                   ELSE ReturnedLength(last.ret)
                          = lastStored[last.date].interpolated.num_points

\* get_curve has read a record stored without an interpolated series while
\* the table also holds a record of another date.
C13_Witness ==
    /\ last.op = "get_curve"
    /\ last.fail = "none"
    /\ last.ret # Null
    /\ last.ret.interpolated = Null
    /\ last.max_points >= 1
    /\ Len(curves) = 2
    /\ FirstCurve(curves, "treasury", last.date) = 2

\* C14: get_latest_curve returns null exactly when the curve table has no
\* record of the family, and otherwise what get_curve returns, without
\* downsampling, for the largest curve_date among the family's records.
C14_LatestIsMaximum ==
    (last.op = "get_latest_curve" /\ last.fail = "none")
        => LET mine == {i \in DOMAIN curves : curves[i].curve_type = "treasury"}
           IN  IF mine = {} THEN last.ret = Null
               ELSE /\ last.ret # Null
                    /\ \A i \in mine : curves[i].curve_date <= last.ret.curve_date
                    /\ \E i \in mine :
                          /\ curves[i].curve_date = last.ret.curve_date
                          /\ last.ret.original_yields = curves[i].yields
                          /\ last.ret.interpolated = curves[i].curve_metadata.interpolated
                    /\ ~last.ret.downsampled

\* The latest record is not the one stored last: date 2 was stored before
\* date 1.
C14_Witness ==
    /\ last.op = "get_latest_curve"
    /\ last.fail = "none"
    /\ last.ret # Null
    /\ Len(curves) = 2
    /\ curves[1].curve_date = 2
    /\ curves[2].curve_date = 1
    /\ last.ret.curve_date = 2

\* The positions of the valid points of two lists of equal length: both
\* the maturity and the yield are numbers.
ValidPositions(maturities, yields) ==
    {i \in DOMAIN maturities : ~isnan(maturities[i]) /\ ~isnan(yields[i])}

\* Two valid points share a maturity.
DuplicateAmongValid(maturities, yields) ==
    \E i, j \in ValidPositions(maturities, yields) :
        i # j /\ maturities[i] = maturities[j]

\* The checks that come before the duplicate check all pass.
EarlierChecksPass(maturities, yields, min_points) ==
    /\ Len(maturities) = Len(yields)
    /\ Len(maturities) >= min_points
    /\ ~NotNumeric(maturities)
    /\ ~NotNumeric(yields)
    /\ \A i \in DOMAIN maturities : isnan(maturities[i]) \/ maturities[i] >= 0
    /\ Cardinality(ValidPositions(maturities, yields)) >= min_points

\* C15: validate_curve_data reports duplicate maturities whenever two valid
\* points share a maturity and all earlier checks pass, also when the lists
\* hold entries whose yield is NaN.
C15_DuplicatesRejected ==
    (/\ last.op = "validate_curve_data"
     /\ EarlierChecksPass(last.maturities, last.yields, last.min_points)
     /\ DuplicateAmongValid(last.maturities, last.yields))
        => last.ret = Invalid("Duplicate maturities detected")

\* The reason of the first failing check in the order of the six checks.
FirstFailingCheck(maturities, yields, min_points) ==
    IF Len(maturities) # Len(yields)
    THEN Invalid("Maturities and yields have different lengths")
    ELSE IF Len(maturities) < min_points
    THEN Invalid("Insufficient data points")
    ELSE IF NotNumeric(maturities) \/ NotNumeric(yields)
    THEN Invalid("Maturities and yields must be numeric")
    ELSE IF \E i \in DOMAIN maturities : ~isnan(maturities[i]) /\ maturities[i] < 0
    THEN Invalid("Maturities cannot be negative")
    ELSE IF Cardinality(ValidPositions(maturities, yields)) < min_points
    THEN Invalid("Insufficient valid data points")
    ELSE IF DuplicateAmongValid(maturities, yields)
    THEN Invalid("Duplicate maturities detected")
    ELSE Valid("")

\* C16: validate_curve_data returns the reason of the first failing check
\* in the order length mismatch, raw count, non-numeric content, negative
\* maturity, valid count, duplicate maturities among the valid points, and
\* valid exactly when none of them fails.
C16_FirstFailingCheckWins ==
    (last.op = "validate_curve_data")
        => last.ret = FirstFailingCheck(last.maturities, last.yields, last.min_points)

\* The rates of the valid points of the lists given to interpolate_curve.
InputRates == {last.rates[i] : i \in ValidPositions(last.maturities, last.rates)}

\* min(min(input_rates), 0) <= r <= 1.5 * max(input_rates), and r is
\* negative only if some input rate is.
InsideClamp(r) ==
    /\ FracLeq(Frac(IF MinOf(InputRates) < 0 THEN MinOf(InputRates) ELSE 0, 1), r)
    /\ FracLeq(r, Frac(3 * MaxOf(InputRates), 2))
    /\ FracLess(r, Frac(0, 1)) => \E x \in InputRates : x < 0

\* C17: every rate interpolate_curve returns, on a given target grid and on
\* the grid it builds itself, lies between min(min(input_rates), 0) and
\* 1.5 * max(input_rates), and is negative only if some input rate is.  On
\* the grid it builds itself a spline is examined at the two ends, the
\* linear interpolator at every point.
C17_RatesInsideClamp ==
    (last.op = "interpolate_curve" /\ ~last.raised)
        => IF last.target = "given"
           THEN \A k \in DOMAIN last.ret.rates : InsideClamp(last.ret.rates[k])
           ELSE /\ InsideClamp(InterpolatedRate(last.ret, GridPoint(last.ret, 1)))
                /\ InsideClamp(InterpolatedRate(last.ret,
                                   GridPoint(last.ret, last.ret.num_points)))
                /\ last.ret.interpolator = "linear"
                      => \A k \in 1..last.ret.num_points :
                            InsideClamp(InterpolatedRate(last.ret, GridPoint(last.ret, k)))

\* C18: with the linear or the quadratic method and the original maturities
\* as the target grid, interpolate_curve returns the original rate at each
\* maturity, for lists of at least two numeric points with distinct
\* maturities.
C18_KnotsReproduced ==
    (/\ last.op = "interpolate_curve"
     /\ last.target = "given"
     /\ last.method \in {"linear", "quadratic"}
     /\ Len(last.maturities) >= 2
     /\ ValidPositions(last.maturities, last.rates) = DOMAIN last.maturities
     /\ ~last.raised
     /\ last.ret.target_maturities = AsTargets(last.maturities))
        => \A k \in DOMAIN last.maturities :
              FracEq(last.ret.rates[k], Frac(last.rates[k], 1))

\* The valid maturities of the lists given to interpolate_curve.
InputMaturities == {last.maturities[i] : i \in ValidPositions(last.maturities, last.rates)}

C20_OutputsAscending ==
    (last.op = "bootstrap_zero_curve" /\ ~last.raised)
        => LET valid == ValidPositions(last.maturities, last.yields)
               n     == Cardinality(valid)
           IN  /\ Len(last.ret.zero_rates) = n
               /\ Len(last.ret.discount_factors) = n
               /\ Len(last.ret.forward_rates) = n
               /\ last.ret.forward_rates[1] = last.ret.zero_rates[1] * FwdScale
               /\ \E p \in [1..n -> valid] :
                     /\ IsInjective(p)
                     /\ \A k \in 1..(n - 1) :
                           last.maturities[p[k]] <= last.maturities[p[k + 1]]
                     /\ \A k \in 1..n :
                           /\ last.ret.zero_rates[k] = last.yields[p[k]]
                           /\ last.ret.discount_factors[k]
                                = DiscountFactor(last.yields[p[k]], last.maturities[p[k]])

\* The curve of three points given in descending order of maturity, with
\* different yields, one of them missing, has been bootstrapped.
C20_Witness ==
    /\ last.op = "bootstrap_zero_curve"
    /\ ~last.raised
    /\ last.maturities = <<3, 2, 1>>
    /\ last.yields = <<42, NaN, 45>>
    /\ last.ret.zero_rates = <<45, 42>>

\* The valid maturities given to bootstrap_zero_curve in ascending order,
\* each as many times as it is given.
SortedValidMaturities ==
    LET valid == ValidPositions(last.maturities, last.yields)
    IN  CHOOSE t \in [1..Cardinality(valid) -> {last.maturities[i] : i \in valid}] :
            /\ \A k \in 1..(Cardinality(valid) - 1) : t[k] <= t[k + 1]
            /\ \A v \in {last.maturities[i] : i \in valid} :
                  Cardinality({k \in DOMAIN t : t[k] = v})
                    = Cardinality({i \in valid : last.maturities[i] = v})

\* C21: in the output of bootstrap_zero_curve the first forward rate is the
\* first zero rate; at a point whose maturity is larger than the one before,
\* forward * (t2 - t1) = z2 * t2 - z1 * t1; at a point whose maturity is not
\* larger, the forward rate is the zero rate of the point and nothing is
\* raised.
C21_ForwardRates ==
    (last.op = "bootstrap_zero_curve" /\ ~last.raised)
        => LET t == SortedValidMaturities
               z == last.ret.zero_rates
               f == last.ret.forward_rates
           IN  /\ f[1] = z[1] * FwdScale
               /\ \A i \in 2..Len(z) :
                     IF t[i] > t[i - 1]
                     THEN f[i] * (t[i] - t[i - 1])
                            = (z[i] * t[i] - z[i - 1] * t[i - 1]) * FwdScale
                     ELSE f[i] = z[i] * FwdScale

\* A curve with two points at the same maturity and a point before them
\* has been bootstrapped: one forward rate by the formula, one by the
\* fallback.
C21_Witness ==
    /\ last.op = "bootstrap_zero_curve"
    /\ ~last.raised
    /\ last.maturities = <<2, 1, 2>>
    /\ last.yields = <<42, 45, 100>>
    /\ last.ret.forward_rates = <<45 * FwdScale, 39 * FwdScale, 100 * FwdScale>>

\* The lists given to bootstrap_zero_curve have strictly increasing
\* maturities and yields greater than 0.
IncreasingPositive ==
    /\ last.op = "bootstrap_zero_curve"
    /\ ~last.raised
    /\ ValidPositions(last.maturities, last.yields) = DOMAIN last.maturities
    /\ \A i \in DOMAIN last.maturities :
          /\ last.yields[i] > 0
          /\ i > 1 => last.maturities[i - 1] < last.maturities[i]

StrictlyDecreasing(xs) == \A i \in DOMAIN xs : i > 1 => xs[i - 1] > xs[i]

\* C22 as stated: for strictly increasing maturities and yields greater than
\* 0 the discount factors are strictly decreasing.
C22_DiscountFactorsDecrease ==
    IncreasingPositive => StrictlyDecreasing(last.ret.discount_factors)

\* C22, amended: for strictly increasing maturities and yields greater than
\* 0 whose product yield * maturity is strictly increasing (as it is when
\* the yields do not fall), the discount factors are strictly decreasing.
C22_DiscountFactorsDecreaseWithProduct ==
    (/\ IncreasingPositive
     /\ \A i \in DOMAIN last.maturities :
           i > 1 => last.yields[i - 1] * last.maturities[i - 1]
                      < last.yields[i] * last.maturities[i])
        => StrictlyDecreasing(last.ret.discount_factors)

\* An inverted curve whose products yield * maturity still increase has
\* been bootstrapped.
C22_Witness ==
    /\ IncreasingPositive
    /\ last.maturities = <<1, 2, 3>>
    /\ last.yields = <<45, 42, 42>>
    /\ StrictlyDecreasing(last.ret.discount_factors)

\* C23: bootstrap_zero_curve raises, and returns nothing, exactly when the
\* two lists differ in length or fewer than two points are left after the
\* entries with a NaN maturity or yield are removed.
C23_RaisesExactlyOnBadInput ==
    (last.op = "bootstrap_zero_curve")
        => (last.raised
              <=> \/ Len(last.maturities) # Len(last.yields)
                  \/ Cardinality({i \in DOMAIN last.maturities :
                                     ~isnan(last.maturities[i]) /\ ~isnan(last.yields[i])}) < 2)

\* Three points were given and one was left after the NaN entries were
\* removed.
C23_Witness ==
    /\ last.op = "bootstrap_zero_curve"
    /\ last.raised
    /\ last.maturities = <<1, 2, 3>>
    /\ last.yields = <<NaN, 42, NaN>>

\* C24: store_raw_data returns the number of rows it inserted or updated;
\* a cell whose existing row is left as it was, because the incoming value is
\* NaN, is not counted.
C24_CountsInsertsAndUpdates ==
    (last.op = "store_raw_data" /\ ~last.raised)
        => last.ret = last.inserted + last.updated

\* C25: calculate_spreads raises when the two lists differ in length and
\* otherwise returns corporate[i] - treasury[i] at every position, which is
\* the negative of what it returns with the two lists exchanged.
C25_SpreadsAntisymmetric ==
    (last.op = "calculate_spreads")
        => IF Len(last.corporate_yields) # Len(last.treasury_yields)
           THEN last.raised
           ELSE /\ ~last.raised
                /\ Len(last.ret.spreads) = Len(last.corporate_yields)
                /\ \A i \in DOMAIN last.corporate_yields :
                      /\ last.ret.spreads[i]
                           = last.corporate_yields[i] - last.treasury_yields[i]
                      /\ last.ret.spreads[i]
                           = 0 - calculate_spreads(last.treasury_yields,
                                                   last.corporate_yields).spreads[i]

\* Spreads of both signs have been computed in one call.
C25_Witness ==
    /\ last.op = "calculate_spreads"
    /\ ~last.raised
    /\ \E i \in DOMAIN last.ret.spreads : last.ret.spreads[i] < 0
    /\ \E i \in DOMAIN last.ret.spreads : last.ret.spreads[i] > 0

\* round(len(rates) * smoothing_factor), halves rounded up.
RoundedWindow(n, smoothing_factor) ==
    (2 * n * smoothing_factor.num + smoothing_factor.den) \div (2 * smoothing_factor.den)

\* The window size of the claim: max(3, round(len * factor)), made odd.
ClaimedWindow(n, smoothing_factor) ==
    LET at_least == IF RoundedWindow(n, smoothing_factor) > 3
                    THEN RoundedWindow(n, smoothing_factor) ELSE 3
    IN  IF at_least % 2 = 0 THEN at_least + 1 ELSE at_least

\* C26: with w = max(3, round(len(rates) * smoothing_factor)) made odd,
\* smooth_curve replaces point i by the mean of the w rates centred on i
\* exactly when w // 2 <= i < len(rates) - w // 2, and returns every other
\* point as it was.
C26_SmoothingWindow ==
    (last.op = "smooth_curve")
        => LET n == Len(last.rates)
               w == ClaimedWindow(n, last.smoothing_factor)
               h == w \div 2
           IN  /\ Len(last.ret) = n
               /\ \A k \in 1..n :
                     IF h <= k - 1 /\ k - 1 < n - h
                     THEN FracEq(last.ret[k],
                                 Frac(SumOf(SubSeq(last.rates, k - h, k + h)), w))
                     ELSE FracEq(last.ret[k], Frac(last.rates[k], 1))

\* The interpolator the last call of interpolate_curve built.
SelectedInterpolator ==
    IF last.target = "default" THEN last.ret.interpolator
    ELSE last.ret.curve.interpolator

\* The positions of the last call's targets that lie outside the valid
\* maturities.
TargetsOutside ==
    LET m == last.ret.curve.maturities
    IN  {k \in DOMAIN last.ret.target_maturities :
            \/ FracLess(last.ret.target_maturities[k], Frac(m[1], 1))
            \/ FracLess(Frac(m[Len(m)], 1), last.ret.target_maturities[k])}

\* C27: with n >= 2 valid points interpolate_curve does not fail; it builds
\* the cubic spline exactly when the method is 'cubic' and n >= 4, the
\* quadratic interpolator exactly when the method is 'quadratic' and n >= 3,
\* and the linear one in every other case; a target outside the valid
\* maturities has no value under the cubic spline and has one under the
\* other two.
C27_MethodLadder ==
    (/\ last.op = "interpolate_curve"
     /\ Cardinality(ValidPositions(last.maturities, last.rates)) >= 2)
        => LET n == Cardinality(ValidPositions(last.maturities, last.rates))
               cubic == last.method = "cubic" /\ n >= 4
               quadratic == last.method = "quadratic" /\ n >= 3
           IN  /\ ~last.raised
               /\ (SelectedInterpolator = "CubicSpline") <=> cubic
               /\ (SelectedInterpolator = "quadratic") <=> quadratic
               /\ (SelectedInterpolator = "linear") <=> (~cubic /\ ~quadratic)
               /\ (last.target = "given") =>
                     \A k \in TargetsOutside :
                         FracIsNaN(last.ret.rates[k])
                             <=> (SelectedInterpolator = "CubicSpline")

\* The cubic method with three valid points fell back to the linear
\* interpolator and extrapolated.
C27_Witness ==
    /\ last.op = "interpolate_curve"
    /\ ~last.raised
    /\ last.method = "cubic"
    /\ last.target = "given"
    /\ Cardinality(ValidPositions(last.maturities, last.rates)) = 3
    /\ last.ret.curve.interpolator = "linear"
    /\ \E k \in TargetsOutside : ~FracIsNaN(last.ret.rates[k])

\* C29: when get_curve downsamples a stored series of n points to
\* max_points >= 2 < n, the positions it selects are
\* floor(k * (n - 1) / (max_points - 1)) for k = 0..max_points - 1, they are
\* strictly increasing, max_points distinct points are returned, and the
\* yields are taken at the same positions as the maturities.
C29_IndicesStrictlyIncrease ==
    (/\ last.op = "get_curve"
     /\ ~last.raised
     /\ last.ret # Null
     /\ last.ret.downsampled
     /\ last.max_points >= 2)
        => LET n == last.ret.interpolated.num_points
               indices == last.ret.indices
           IN  /\ n > last.max_points
               /\ Len(indices) = last.max_points
               /\ \A k \in 0..(last.max_points - 1) :
                     indices[k + 1] - 1 = (k * (n - 1)) \div (last.max_points - 1)
               /\ \A k \in 1..(last.max_points - 1) : indices[k] < indices[k + 1]
               /\ \A k \in DOMAIN indices : indices[k] \in 1..n
               /\ ReturnedLength(last.ret) = last.max_points
               /\ \A j, k \in 1..ReturnedLength(last.ret) :
                     j < k => FracLess(ReturnedMaturity(last.ret, j),
                                       ReturnedMaturity(last.ret, k))
               /\ last.ret.yield_indices = indices

\* A stored series of four points has been downsampled to three.
C29_Witness ==
    /\ last.op = "get_curve"
    /\ ~last.raised
    /\ last.ret # Null
    /\ last.ret.downsampled
    /\ last.max_points = 3
    /\ last.ret.interpolated.num_points = 4
    /\ last.ret.indices = <<1, 2, 4>>

C30_WitnessPartial ==
    /\ last.op = "refresh_all_data"
    /\ ~last.raised
    /\ last.in.fetch_fails
    /\ last.corporate_failed = 0
    /\ last.log = "partial"

\* refresh_all_data raised and the stored entry is still 'running'.
C30_StaysRunningWhenRaised ==
    /\ last.op = "refresh_all_data"
    /\ last.raised
    /\ last.log = "running"

\* The records the curve table holds for the key of the two calls.
PairRecords ==
    {i \in DOMAIN curves :
        /\ curves[i].curve_type = last.calls[1].curve_data.curve_type
        /\ curves[i].curve_date = last.calls[1].curve_data.curve_date}

\* C28: in every state of two interleaved store_curve calls for one key the
\* table holds at most one record of the key; a call that has returned
\* False had its insert rejected after the other call committed, and the
\* record of the key is the one the other call stored.
C28_OneRecordPerKey ==
    (last.op = "store_curve_pair")
        => /\ Cardinality(PairRecords) <= 1
           /\ \A c, o \in Callers :
                 (c # o /\ last.calls[c].pc = "done" /\ ~last.calls[c].ret)
                    => /\ last.calls[c].existing = 0
                       /\ last.calls[o].pc = "done"
                       /\ last.calls[o].ret
                       /\ \E i \in PairRecords :
                             /\ curves[i].yields = last.calls[o].curve_data.yields
                             /\ curves[i].curve_metadata
                                  = CurveMetadata(last.calls[o].curve_data)
                       /\ lastStored[last.calls[o].curve_data.curve_date]
                            = last.calls[o].curve_data

\* Both calls looked up an empty table, the first committed its insert and
\* the second, with other yields, was rejected.
C28_Witness ==
    /\ last.op = "store_curve_pair"
    /\ last.calls[1].pc = "done"
    /\ last.calls[1].ret
    /\ last.calls[2].pc = "done"
    /\ ~last.calls[2].ret
    /\ last.calls[1].curve_data.yields # last.calls[2].curve_data.yields
    /\ Cardinality(PairRecords) = 1

====
